---- MODULE Spec2Model ----
(***************************************************************************)
(* Model of the bulk operation executor (cterasdk/bulk/operations.py), of   *)
(* the rate limiting strategies (cterasdk/ratelimit/strategies.py) and of  *)
(* the strategy lookup of the rate limit manager                            *)
(* (cterasdk/ratelimit/manager.py).                                         *)
(*                                                                          *)
(* The executor is modelled at the granularity of the asyncio event loop:  *)
(* a task keeps the loop until it suspends in an await or finishes.  What  *)
(* an action, a compensating action or the observer does (return, raise)   *)
(* is the environment's choice, taken at the moment it happens and         *)
(* recorded in `hist`.                                                      *)
(***************************************************************************)
EXTENDS Integers, Sequences, FiniteSets, TLC

(* ------------------------------ bounds --------------------------------- *)
MaxOps == 3
MaxConcurrent == 2
MaxRuns == 2
MaxSubmitted == 3
MaxRate == 2
MaxCapacity == 2
MaxUnits == 2
MaxTime == 1
NumThreadCallers == 1
NumAsyncCallers == 1
NumWaitCallers == 1
TicksPerSecond == 2
MaxClock == 2
MaxCalls == 5
MaxRequests == 2
MaxWindow == 2
MaxFeedback == 12
MaxRetryAfter == 1
MaxPath == 2
MaxKeys == 2
MaxStrategies == 2
MaxRetries == 2
MaxAcquires == 2
MaxThreads == 2
MaxGets == 2
BackToBackCalls == 25
MaxProbes == 2
MaxBackoff == 3

(* ----------------------------- variables ------------------------------- *)
VARIABLES
    max_concurrent,        \* BulkOperationManager.max_concurrent
    enable_rollback,       \* BulkOperationManager.enable_rollback
    operations,            \* BulkOperationManager.operations
    completed_operations,  \* BulkOperationManager.completed_operations (indices into operations)
    phase,                 \* position of the caller / of execute_async / execute_sync
    mode,                  \* which of execute_async / execute_sync is running or ran last
    on_progress,           \* TRUE iff the run was given an observer
    runs,                  \* number of execute_* calls made on this manager
    submitted,             \* number of operations handed to execute_* calls so far
    pc,                    \* execute_async: position of each task
    semaphore,             \* execute_async: value of the asyncio.Semaphore
    waiters,               \* execute_async: FIFO of tasks blocked on the semaphore
    ret,                   \* execute_async: value returned by each task
    results,               \* the list execute_* builds and returns
    k,                     \* execute_sync: loop index
    rb_idx,                \* _rollback: position in reversed(completed_operations)
    hist,                  \* what happened in the current run (observation only)
    tb_rate,               \* TokenBucketStrategy.rate, in tokens per second
    tb_capacity,           \* TokenBucketStrategy.capacity
    tokens,                \* TokenBucketStrategy.tokens, in 1/TicksPerSecond of a token
    last_update,           \* TokenBucketStrategy.last_update
    now,                   \* time.time(), in ticks of 1/TicksPerSecond second since construction
    lock,                  \* TokenBucketStrategy._lock: the caller that holds it
    async_lock,            \* TokenBucketStrategy._async_lock: the caller that holds it
    call,                  \* per caller: position and locals of its call
    admitted,              \* units for which acquire / acquire_async returned True (observation only)
    trace,                 \* the calls made one after the other on a strategy, with what they returned (observation only)
    max_requests,          \* FixedWindowStrategy.max_requests
    window_size,           \* FixedWindowStrategy.window_size, in ticks
    requests,              \* FixedWindowStrategy.requests: the deque of timestamps, leftmost first
    lb_rate,               \* LeakyBucketStrategy.rate, in requests per second
    lb_capacity,           \* LeakyBucketStrategy.capacity
    queue_size,            \* LeakyBucketStrategy.queue_size
    last_leak,             \* LeakyBucketStrategy.last_leak
    min_rate,              \* AdaptiveStrategy.min_rate, in requests per second
    max_rate,              \* AdaptiveStrategy.max_rate
    current_rate,          \* AdaptiveStrategy.current_rate, a fraction
    ad_tokens,             \* AdaptiveStrategy.tokens, a fraction
    ad_last_update,        \* AdaptiveStrategy.last_update
    consecutive_successes, \* AdaptiveStrategy.consecutive_successes
    consecutive_failures,  \* AdaptiveStrategy.consecutive_failures
    feedback,              \* the on_success / on_rate_limit calls made so far (observation only)
    endpoint_strategies,   \* RateLimitManager.endpoint_strategies: the dict's items in insertion order
    resolved,              \* the last get_strategy call and what it returned
    registered,            \* the set_endpoint_strategy calls: keys by first registration, and the last call (observation only)
    clock,                 \* time.time() as the manager's callers read it, a fraction of seconds
    buckets,               \* per strategy instance: the attributes of the TokenBucketStrategy
    stats,                 \* RateLimitManager.stats: the dict
    acquiring,             \* per caller of RateLimitManager.acquire: position, locals and what the call returned
    last_stats,            \* the get_stats calls since self.stats was last written, and what the last one returned (observation only)
    wrapper,               \* the function made by rate_limited: its parameters, and position, locals and outcome of its call
    tally                  \* acquire calls ever made; acquire calls and refused attempts since the last reset_stats (observation only)

bulk_vars == <<max_concurrent, enable_rollback, operations, completed_operations,
               phase, mode, on_progress, runs, submitted, pc, semaphore,
               waiters, ret, results, k, rb_idx, hist>>

tb_vars == <<tb_rate, tb_capacity, tokens, last_update, now, lock, async_lock,
             call, admitted>>

\* The token bucket's parameters and state, and what its concurrent callers add.
tb_state == <<tb_rate, tb_capacity, tokens, last_update>>
tb_conc == <<lock, async_lock, call, admitted>>

fw_vars == <<max_requests, window_size, requests>>

lb_vars == <<lb_rate, lb_capacity, queue_size, last_leak>>

ad_vars == <<min_rate, max_rate, current_rate, ad_tokens, ad_last_update,
             consecutive_successes, consecutive_failures, feedback>>

rm_vars == <<endpoint_strategies, resolved, registered>>

mg_vars == <<clock, buckets, stats, acquiring, last_stats, wrapper, tally>>

seq_vars == <<trace, fw_vars, lb_vars, ad_vars, rm_vars, mg_vars>>

\* What a call on one strategy leaves alone, besides that strategy's own attributes.
tb_frame == <<bulk_vars, tb_conc, fw_vars, lb_vars, ad_vars, rm_vars, mg_vars>>
fw_frame == <<bulk_vars, tb_state, tb_conc, lb_vars, ad_vars, rm_vars, mg_vars>>
lb_frame == <<bulk_vars, tb_state, tb_conc, fw_vars, ad_vars, rm_vars, mg_vars>>
ad_frame == <<bulk_vars, tb_state, tb_conc, fw_vars, lb_vars, rm_vars, mg_vars, trace>>
rm_frame == <<bulk_vars, tb_state, tb_conc, fw_vars, lb_vars, ad_vars, trace, now, mg_vars>>
mg_frame == <<bulk_vars, tb_state, tb_conc, fw_vars, lb_vars, ad_vars, trace, now>>

vars == <<bulk_vars, tb_vars, seq_vars>>

(* --------------------------- data structures --------------------------- *)
\* OperationStatus
PENDING == "pending"
RUNNING == "running"
SUCCESS == "success"
FAILED == "failed"
ROLLED_BACK == "rolled_back"

\* BulkOperation.result = None
NoResult == [operation_id |-> 0, status |-> "none", data |-> 0]

\* OperationResult(operation_id, status, data)
OperationResult(operation_id, status, data) ==
    [operation_id |-> operation_id, status |-> status, data |-> data]

\* BulkOperation(operation_id, func, args, kwargs, rollback_func); the
\* identifier is the position of the operation in the set, has_rollback
\* says whether rollback_func is given.
BulkOperation(operation_id, has_rollback) ==
    [operation_id |-> operation_id, has_rollback |-> has_rollback, result |-> NoResult]

\* The value the action of operation i returns.
ReturnValue(i) == 10 + i

\* An entry of a result list: either the object held in operations[op].result
\* (ref = TRUE, so that later changes of its status show through) or an
\* OperationResult object of its own.
RefResult(i) == [op |-> i, ref |-> TRUE, res |-> NoResult]
OwnResult(i, r) == [op |-> i, ref |-> FALSE, res |-> r]
NoRet == [op |-> 0, ref |-> FALSE, res |-> NoResult]

\* The OperationResult an entry of a result list denotes.
Deref(e) == IF e.ref THEN operations[e.op].result ELSE e.res

NumOps == Len(operations)
Ops == 1..NumOps

\* History of the current run.
NoHist == [invoked |-> <<>>,      \* operations whose action was invoked, in order
           action |-> <<>>,       \* per operation: "none", "returned", "raised"
           observer |-> <<>>,     \* per operation: "none", "returned", "raised"
           progress |-> <<>>,     \* the observer's calls, in order
           rollbacks |-> <<>>,    \* operations whose compensating action was invoked, in order
           rb_raised |-> <<>>,    \* operations whose compensating action raised, in order
           items |-> 0]           \* items passed to the helper call that started the run, if one did

FreshHist(n) == [NoHist EXCEPT !.action = [i \in 1..n |-> "none"],
                               !.observer = [i \in 1..n |-> "none"]]

(* ------------------------------ helpers -------------------------------- *)
RECURSIVE Reverse(_)
Reverse(s) == IF s = <<>> THEN <<>> ELSE Append(Reverse(Tail(s)), Head(s))

RECURSIVE Count(_, _)
Count(s, x) == IF s = <<>> THEN 0
               ELSE (IF Head(s) = x THEN 1 ELSE 0) + Count(Tail(s), x)

Range(s) == {s[i] : i \in 1..Len(s)}

(* ---------------------------- construction ----------------------------- *)
BulkInit ==
    /\ max_concurrent \in 0..MaxConcurrent
    /\ enable_rollback \in BOOLEAN
    /\ operations = <<>>
    /\ completed_operations = <<>>
    /\ phase = "idle"
    /\ mode = "none"
    /\ on_progress = FALSE
    /\ runs = 0
    /\ submitted = 0
    /\ pc = <<>>
    /\ semaphore = 0
    /\ waiters = <<>>
    /\ ret = <<>>
    /\ results = <<>>
    /\ k = 0
    /\ rb_idx = 0
    /\ hist = NoHist

\* BulkOperationManager(max_concurrent, enable_rollback)
BulkConstruct(concurrent, rollback) ==
    /\ max_concurrent = concurrent
    /\ enable_rollback = rollback
    /\ operations = <<>>
    /\ completed_operations = <<>>
    /\ phase = "idle"
    /\ mode = "none"
    /\ on_progress = FALSE
    /\ runs = 0
    /\ submitted = 0
    /\ pc = <<>>
    /\ semaphore = 0
    /\ waiters = <<>>
    /\ ret = <<>>
    /\ results = <<>>
    /\ k = 0
    /\ rb_idx = 0
    /\ hist = NoHist

\* The caller holds the manager: no execute_* call is in progress.
CallerHolds == phase \in {"idle", "returned"}

\* Locals of the last execute_* call are gone once the caller goes on.
DropRun ==
    /\ phase' = "idle"
    /\ mode' = "none"
    /\ on_progress' = FALSE
    /\ pc' = <<>>
    /\ semaphore' = 0
    /\ waiters' = <<>>
    /\ ret' = <<>>
    /\ results' = <<>>
    /\ k' = 0
    /\ rb_idx' = 0
    /\ hist' = NoHist

AddOperation(has_rollback) ==
    /\ CallerHolds
    /\ NumOps < MaxOps
    /\ operations' = Append(operations, BulkOperation(NumOps + 1, has_rollback))
    /\ DropRun
    /\ UNCHANGED <<tb_vars, seq_vars, max_concurrent, enable_rollback, completed_operations, runs,
                   submitted>>

Clear ==
    /\ CallerHolds
    /\ operations # <<>>
    /\ operations' = <<>>
    /\ completed_operations' = <<>>
    /\ DropRun
    /\ UNCHANGED <<tb_vars, seq_vars, max_concurrent, enable_rollback, runs, submitted>>

(* ---------------------------- execute_async ---------------------------- *)
ExecuteAsync(observer) ==
    /\ CallerHolds
    /\ runs < MaxRuns
    /\ submitted + NumOps <= MaxSubmitted
    /\ runs' = runs + 1
    /\ submitted' = submitted + NumOps
    /\ phase' = "gather"
    /\ mode' = "async"
    /\ on_progress' = observer
    /\ results' = <<>>
    /\ semaphore' = max_concurrent
    /\ waiters' = <<>>
    /\ pc' = [i \in Ops |-> "created"]
    /\ ret' = [i \in Ops |-> NoRet]
    /\ k' = 0
    /\ rb_idx' = 0
    /\ hist' = FreshHist(NumOps)
    /\ UNCHANGED <<tb_vars, seq_vars, max_concurrent, enable_rollback, operations, completed_operations>>

\* BulkOperationManager(): the default of max_concurrent.
DefaultMaxConcurrent == 10

\* BulkUserOperations.create_users(users, max_concurrent) with n users, and
\* the await of what it returns; delete_users and BulkFileOperations.
\* delete_files are the same code with another action: max_concurrent is
\* set, one operation without a compensating action is added per item to
\* the manager the helper was constructed with, and execute_async() is
\* called without an observer.
CreateUsers(n, concurrent) ==
    /\ CallerHolds
    /\ runs < MaxRuns
    /\ NumOps + n <= MaxOps
    /\ max_concurrent' = concurrent
    /\ operations' = operations \o [j \in 1..n |-> BulkOperation(NumOps + j, FALSE)]
    /\ runs' = runs + 1
    /\ submitted' = submitted + NumOps + n
    /\ phase' = "gather"
    /\ mode' = "async"
    /\ on_progress' = FALSE
    /\ results' = <<>>
    /\ semaphore' = concurrent
    /\ waiters' = <<>>
    /\ pc' = [i \in 1..(NumOps + n) |-> "created"]
    /\ ret' = [i \in 1..(NumOps + n) |-> NoRet]
    /\ k' = 0
    /\ rb_idx' = 0
    /\ hist' = [FreshHist(NumOps + n) EXCEPT !.items = n]
    /\ UNCHANGED <<tb_vars, seq_vars, enable_rollback, completed_operations>>

\* A gate that never reports itself taken.
LockedNever(value, queue) == FALSE

\* asyncio.Semaphore.locked()
Locked(value, queue) == value = 0 \/ queue # <<>>

\* A task that keeps its slot when it leaves `async with semaphore`.
ReleaseNothing(value) == value

\* `async with semaphore`, on the way out by return or by raise:
\* Semaphore.release()
Release(value) == value + 1

\* A step of a task is what the task does between two points at which it
\* can be suspended: the event loop runs one task at a time, so nothing
\* else happens in between.  An awaited action or observer that does not
\* suspend is the behaviour in which its return follows at once.

\* execute_with_semaphore: `async with semaphore`, first step of task i;
\* gather schedules the tasks in the order of the list.  With a free slot
\* the task goes on into _execute_single and calls the action.
TaskStart(i) ==
    /\ phase = "gather"
    /\ pc[i] = "created"
    /\ \A j \in 1..(i - 1) : pc[j] # "created"
    /\ IF Locked(semaphore, waiters)
       THEN /\ waiters' = Append(waiters, i)
            /\ pc' = [pc EXCEPT ![i] = "waiting"]
            /\ UNCHANGED <<semaphore, hist>>
       ELSE /\ semaphore' = semaphore - 1
            /\ pc' = [pc EXCEPT ![i] = "running"]
            /\ hist' = [hist EXCEPT !.invoked = Append(@, i)]
            /\ UNCHANGED waiters
    /\ UNCHANGED <<tb_vars, seq_vars, max_concurrent, enable_rollback, operations,
                   completed_operations, phase, mode, on_progress, runs, submitted,
                   ret, results, k, rb_idx>>

\* The first waiter is woken once a slot is free, takes it, and calls its
\* action.
Admit ==
    /\ phase = "gather"
    /\ waiters # <<>>
    /\ semaphore > 0
    /\ semaphore' = semaphore - 1
    /\ waiters' = Tail(waiters)
    /\ pc' = [pc EXCEPT ![Head(waiters)] = "running"]
    /\ hist' = [hist EXCEPT !.invoked = Append(@, Head(waiters))]
    /\ UNCHANGED <<tb_vars, seq_vars, max_concurrent, enable_rollback, operations,
                   completed_operations, phase, mode, on_progress, runs, submitted,
                   ret, results, k, rb_idx>>

\* _execute_single: the action returned; the result is stored, the
\* operation is appended to completed_operations and, if there is an
\* observer, on_progress(len(completed_operations), len(operations)) is
\* called; without one the task returns operation.result and leaves
\* `async with semaphore`.
ActionReturn(i) ==
    /\ phase = "gather"
    /\ pc[i] = "running"
    /\ operations' = [operations EXCEPT ![i].result =
                          OperationResult(operations[i].operation_id, SUCCESS, ReturnValue(i))]
    /\ completed_operations' = Append(completed_operations, i)
    /\ IF on_progress
       THEN /\ pc' = [pc EXCEPT ![i] = "observing"]
            /\ hist' = [hist EXCEPT !.action[i] = "returned",
                                    !.progress = Append(@, [op |-> i,
                                                            completed |-> Len(completed_operations) + 1,
                                                            total |-> NumOps])]
            /\ UNCHANGED <<ret, semaphore>>
       ELSE /\ pc' = [pc EXCEPT ![i] = "done"]
            /\ hist' = [hist EXCEPT !.action[i] = "returned"]
            /\ ret' = [ret EXCEPT ![i] = RefResult(i)]
            /\ semaphore' = Release(semaphore)
    /\ UNCHANGED <<tb_vars, seq_vars, max_concurrent, enable_rollback, phase, mode, on_progress,
                   runs, submitted, waiters, results, k, rb_idx>>

\* _execute_single: the action raised; `except Exception` returns a FAILED
\* result and the task leaves `async with semaphore`.
ActionRaise(i) ==
    /\ phase = "gather"
    /\ pc[i] = "running"
    /\ ret' = [ret EXCEPT ![i] =
                  OwnResult(i, OperationResult(operations[i].operation_id, FAILED, 0))]
    /\ pc' = [pc EXCEPT ![i] = "done"]
    /\ semaphore' = Release(semaphore)
    /\ hist' = [hist EXCEPT !.action[i] = "raised"]
    /\ UNCHANGED <<tb_vars, seq_vars, max_concurrent, enable_rollback, operations,
                   completed_operations, phase, mode, on_progress, runs, submitted,
                   waiters, results, k, rb_idx>>

\* _execute_single: the observer returned; `return operation.result`.
ObserverReturn(i) ==
    /\ phase = "gather"
    /\ pc[i] = "observing"
    /\ ret' = [ret EXCEPT ![i] = RefResult(i)]
    /\ pc' = [pc EXCEPT ![i] = "done"]
    /\ semaphore' = Release(semaphore)
    /\ hist' = [hist EXCEPT !.observer[i] = "returned"]
    /\ UNCHANGED <<tb_vars, seq_vars, max_concurrent, enable_rollback, operations,
                   completed_operations, phase, mode, on_progress, runs, submitted,
                   waiters, results, k, rb_idx>>

\* _execute_single: the observer raised inside the try block; `except
\* Exception` returns a FAILED result, operation.result stays as stored.
ObserverRaise(i) ==
    /\ phase = "gather"
    /\ pc[i] = "observing"
    /\ ret' = [ret EXCEPT ![i] =
                  OwnResult(i, OperationResult(operations[i].operation_id, FAILED, 0))]
    /\ pc' = [pc EXCEPT ![i] = "done"]
    /\ semaphore' = Release(semaphore)
    /\ hist' = [hist EXCEPT !.observer[i] = "raised"]
    /\ UNCHANGED <<tb_vars, seq_vars, max_concurrent, enable_rollback, operations,
                   completed_operations, phase, mode, on_progress, runs, submitted,
                   waiters, results, k, rb_idx>>

\* A gather that hands back only the values of the tasks that did not fail.
GatherSuccessesOnly(values) == SelectSeq(values, LAMBDA e : e.ref)

\* asyncio.gather(*tasks, return_exceptions=True): the tasks' values in the
\* order of the tasks.
Gather(values) == values

\* A gather that gives up at the first task that failed.
GatherStopsAtFailure(positions, values) ==
    \/ \A i \in 1..Len(positions) : positions[i] = "done"
    \/ \E i \in 1..Len(positions) : positions[i] = "done" /\ ~values[i].ref

\* gather returns once every task is done, whatever the tasks' outcomes.
GatherDone(positions, values) == \A i \in 1..Len(positions) : positions[i] = "done"

\* failed_ops
FailedOps(rs) == {i \in 1..Len(rs) : Deref(rs[i]).status = FAILED}

\* A rollback that is started by any failure, whatever enable_rollback says.
RollbackOnAnyFailure(failed, enabled) == failed # {}

\* `if failed_ops and self.enable_rollback`
RollbackWanted(failed, enabled) == failed # {} /\ enabled

GatherReturn ==
    /\ phase = "gather"
    /\ GatherDone(pc, ret)
    /\ results' = Gather(ret)
    /\ IF RollbackWanted(FailedOps(Gather(ret)), enable_rollback)
       THEN /\ phase' = "rollback"
            /\ rb_idx' = Len(completed_operations)
       ELSE /\ phase' = "returned"
            /\ UNCHANGED rb_idx
    /\ UNCHANGED <<tb_vars, seq_vars, max_concurrent, enable_rollback, operations, completed_operations,
                   mode, on_progress, runs, submitted, pc, semaphore, waiters, ret, k, hist>>

\* A task cancelled at the gate that hands back a FAILED result.
FailedAtGate(i) == OwnResult(i, OperationResult(i, FAILED, 0))

\* The value of a task that is cancelled in `async with semaphore`, before
\* _execute_single and its try block are entered: CancelledError leaves the
\* task, which has no value.
CancelledAtGate(i) == NoRet

\* The tasks that hold a slot: inside the action or inside the observer.
SlotHolders == {i \in Ops : pc[i] \in {"running", "observing"}}

\* The caller cancels the run while gather is awaited: gather cancels every
\* task that is not done.  A task suspended at the gate leaves the queue of
\* waiters, a task suspended inside its action or observer leaves `async
\* with semaphore`, which releases its slot; CancelledError is not an
\* Exception, so no except clause makes a result of it, and execute_async
\* is left at the await, before failed_ops and _rollback.
Cancel ==
    /\ phase = "gather"
    /\ ~GatherDone(pc, ret)
    /\ phase' = "cancelled"
    /\ pc' = [i \in Ops |-> CASE pc[i] = "done" -> "done"
                             [] pc[i] = "waiting" -> "unblocked"
                             [] OTHER -> "cancelled"]
    /\ ret' = [i \in Ops |-> IF pc[i] \in {"created", "waiting"}
                             THEN CancelledAtGate(i)
                             ELSE ret[i]]
    /\ waiters' = <<>>
    /\ semaphore' = semaphore + Cardinality(SlotHolders)
    /\ UNCHANGED <<tb_vars, seq_vars, max_concurrent, enable_rollback, operations,
                   completed_operations, mode, on_progress, runs, submitted, results,
                   k, rb_idx, hist>>

(* ----------------------------- execute_sync ---------------------------- *)
ExecuteSync(observer) ==
    /\ CallerHolds
    /\ runs < MaxRuns
    /\ submitted + NumOps <= MaxSubmitted
    /\ runs' = runs + 1
    /\ submitted' = submitted + NumOps
    /\ phase' = "sync"
    /\ mode' = "sync"
    /\ on_progress' = observer
    /\ results' = <<>>
    /\ k' = 1
    /\ pc' = <<>>
    /\ ret' = <<>>
    /\ semaphore' = 0
    /\ waiters' = <<>>
    /\ rb_idx' = 0
    /\ hist' = FreshHist(NumOps)
    /\ UNCHANGED <<tb_vars, seq_vars, max_concurrent, enable_rollback, operations, completed_operations>>

\* A loop that never rolls back and never breaks.
SyncNeverBreaks(rollback) == "append"

\* What the loop of execute_sync does after `except Exception` has stored
\* the FAILED result: with rollback it rolls back and breaks out of the
\* loop, otherwise it goes on to `results.append(operation.result)`.
SyncAfterFailure(rollback) == IF rollback THEN "rollback" ELSE "append"

\* `except Exception as e` of execute_sync, operation k.
SyncExcept ==
    /\ operations' = [operations EXCEPT ![k].result =
                          OperationResult(operations[k].operation_id, FAILED, 0)]
    /\ IF SyncAfterFailure(enable_rollback) = "rollback"
       THEN /\ phase' = "rollback"
            /\ rb_idx' = Len(completed_operations)
            /\ UNCHANGED <<results, k>>
       ELSE /\ phase' = "sync"
            /\ results' = Append(results, RefResult(k))
            /\ k' = k + 1
            /\ UNCHANGED rb_idx

\* execute_sync: operation.func(*args, **kwargs) returned.
SyncActionReturn ==
    /\ phase = "sync"
    /\ k <= NumOps
    /\ operations' = [operations EXCEPT ![k].result =
                          OperationResult(operations[k].operation_id, SUCCESS, ReturnValue(k))]
    /\ completed_operations' = Append(completed_operations, k)
    /\ hist' = [hist EXCEPT !.invoked = Append(@, k), !.action[k] = "returned"]
    /\ IF on_progress
       THEN /\ phase' = "sync_notify"
            /\ UNCHANGED <<results, k>>
       ELSE /\ phase' = "sync"
            /\ results' = Append(results, RefResult(k))
            /\ k' = k + 1
    /\ UNCHANGED <<tb_vars, seq_vars, max_concurrent, enable_rollback, mode, on_progress, runs, submitted,
                   pc, semaphore, waiters, ret, rb_idx>>

\* execute_sync: operation.func(*args, **kwargs) raised.
SyncActionRaise ==
    /\ phase = "sync"
    /\ k <= NumOps
    /\ hist' = [hist EXCEPT !.invoked = Append(@, k), !.action[k] = "raised"]
    /\ SyncExcept
    /\ UNCHANGED <<tb_vars, seq_vars, max_concurrent, enable_rollback, completed_operations, mode,
                   on_progress, runs, submitted, pc, semaphore, waiters, ret>>

\* execute_sync: on_progress(len(completed_operations), len(operations)),
\* called inside the try block.
SyncObserver(raises) ==
    /\ phase = "sync_notify"
    /\ hist' = [hist EXCEPT !.progress = Append(@, [op |-> k,
                                                     completed |-> Len(completed_operations),
                                                     total |-> NumOps]),
                            !.observer[k] = IF raises THEN "raised" ELSE "returned"]
    /\ IF raises
       THEN SyncExcept
       ELSE /\ phase' = "sync"
            /\ results' = Append(results, RefResult(k))
            /\ k' = k + 1
            /\ UNCHANGED <<operations, rb_idx>>
    /\ UNCHANGED <<tb_vars, seq_vars, max_concurrent, enable_rollback, completed_operations, mode,
                   on_progress, runs, submitted, pc, semaphore, waiters, ret>>

\* execute_sync: the loop is over, `return results`.
SyncReturn ==
    /\ phase = "sync"
    /\ k > NumOps
    /\ phase' = "returned"
    /\ UNCHANGED <<tb_vars, seq_vars, max_concurrent, enable_rollback, operations, completed_operations,
                   mode, on_progress, runs, submitted, pc, semaphore, waiters, ret,
                   results, k, rb_idx, hist>>

(* ----------------------- _rollback / _rollback_sync -------------------- *)
\* A rollback that visits the operations in the order they completed.
RollbackInCompletionOrder(completed) == completed

\* The order in which the rollback visits the operations.
RollbackOrder(completed) == Reverse(completed)

\* One iteration of `for operation in reversed(self.completed_operations)`;
\* rb_idx counts the iterations still to do.
RollbackTarget == RollbackOrder(completed_operations)[Len(completed_operations) - rb_idx + 1]

RollbackSkip ==
    /\ phase = "rollback"
    /\ rb_idx > 0
    /\ ~operations[RollbackTarget].has_rollback
    /\ rb_idx' = rb_idx - 1
    /\ UNCHANGED <<tb_vars, seq_vars, max_concurrent, enable_rollback, operations, completed_operations,
                   phase, mode, on_progress, runs, submitted, pc, semaphore, waiters, ret,
                   results, k, hist>>

\* A rollback that marks the operation whether or not its compensating
\* action returned.
RolledBackAlways(raises, status) == ROLLED_BACK

\* The status of an operation after its compensating action was invoked:
\* `operation.result.status = ROLLED_BACK` is only reached when the call
\* returned; the except clause logs and leaves the result alone.
RolledBackStatus(raises, status) == IF raises THEN status ELSE ROLLED_BACK

\* A rollback that stops at the first compensating action that raises.
RollbackAbortsOnRaise(raises, remaining) == IF raises THEN 0 ELSE remaining - 1

\* The iterations left after one compensating action was invoked: the
\* try/except is inside the for loop, so the loop goes on either way.
RollbackRemaining(raises, remaining) == remaining - 1

RollbackInvoke(raises) ==
    /\ phase = "rollback"
    /\ rb_idx > 0
    /\ operations[RollbackTarget].has_rollback
    /\ rb_idx' = RollbackRemaining(raises, rb_idx)
    /\ hist' = [hist EXCEPT !.rollbacks = Append(@, RollbackTarget),
                            !.rb_raised = IF raises THEN Append(@, RollbackTarget) ELSE @]
    /\ operations' = [operations EXCEPT ![RollbackTarget].result.status =
                                            RolledBackStatus(raises, @)]
    /\ UNCHANGED <<tb_vars, seq_vars, max_concurrent, enable_rollback, completed_operations, phase, mode,
                   on_progress, runs, submitted, pc, semaphore, waiters, ret, results, k>>

\* The loop is over: execute_async returns results, execute_sync breaks
\* out of its loop and returns results.
RollbackDone ==
    /\ phase = "rollback"
    /\ rb_idx = 0
    /\ phase' = "returned"
    /\ UNCHANGED <<tb_vars, seq_vars, max_concurrent, enable_rollback, operations, completed_operations,
                   mode, on_progress, runs, submitted, pc, semaphore, waiters, ret, results,
                   k, rb_idx, hist>>

(* ------------------------- TokenBucketStrategy ------------------------- *)
(* One strategy instance and its concurrent callers.  Threads call acquire *)
(* and wait_time, tasks of one event loop call acquire_async.  Every read  *)
(* and write of an attribute of the strategy is a step of its own.  The    *)
(* clock counts ticks of 1/TicksPerSecond second, rates are whole numbers  *)
(* per second, and amounts of tokens are held as whole numbers of          *)
(* 1/TicksPerSecond token, so that elapsed * rate is exact.                *)
ThreadCallers == {<<"acquire", n>> : n \in 1..NumThreadCallers}
AsyncCallers == {<<"acquire_async", n>> : n \in 1..NumAsyncCallers}
WaitCallers == {<<"wait_time", n>> : n \in 1..NumWaitCallers}
Callers == ThreadCallers \cup AsyncCallers \cup WaitCallers
NoCaller == <<"none", 0>>

Min(a, b) == IF a <= b THEN a ELSE b
Max(a, b) == IF a >= b THEN a ELSE b

\* n tokens, in the unit amounts of tokens are held in.
Scale(n) == n * TicksPerSecond

RECURSIVE GCD(_, _)
GCD(a, b) == IF b = 0 THEN a ELSE GCD(b, a % b)

\* The float num / den (num >= 0, den > 0), in lowest terms.
Frac(num, den) == [num |-> num \div GCD(num, den), den |-> den \div GCD(num, den)]

\* `return 0.0`
NoWait == Frac(0, 1)

\* A caller that has not called yet.
IdleCall == [pc |-> "idle", units |-> 0, current_time |-> 0, elapsed |-> 0,
             value |-> 0, returned |-> FALSE, ok |-> FALSE, wait |-> NoWait]

\* TokenBucketStrategy(rate, capacity), constructed at time 0.
TBConstruct(rate, capacity) ==
    /\ tb_rate = rate
    /\ tb_capacity = capacity
    /\ tokens = Scale(capacity)
    /\ last_update = 0
    /\ now = 0
    /\ lock = NoCaller
    /\ async_lock = NoCaller
    /\ call = [c \in Callers |-> IdleCall]
    /\ admitted = 0

\* The tasks of the event loop that are inside acquire_async: a task keeps
\* the loop's thread until it awaits, and acquire_async does not suspend
\* when _async_lock is free.
OnLoop == {c \in AsyncCallers : call[c].pc \notin {"idle", "done"}}

\* acquire(tokens) / acquire_async(tokens) / wait_time() is called.
TBCall(c, units) ==
    /\ call[c].pc = "idle"
    /\ c \in AsyncCallers => OnLoop = {}
    /\ call' = [call EXCEPT ![c].pc = "lock", ![c].units = units]
    /\ UNCHANGED <<bulk_vars, seq_vars, tb_rate, tb_capacity, tokens, last_update, now, lock,
                   async_lock, admitted>>

\* The lock a caller's critical section is guarded by: acquire and
\* wait_time take _lock, acquire_async takes _async_lock.
GuardOf(c) == IF c \in AsyncCallers THEN "_async_lock" ELSE "_lock"

\* `with self._lock:` / `async with self._async_lock:`
TBLock(c) ==
    /\ call[c].pc = "lock"
    /\ IF GuardOf(c) = "_lock"
       THEN /\ lock = NoCaller
            /\ lock' = c
            /\ UNCHANGED async_lock
       ELSE /\ async_lock = NoCaller
            /\ async_lock' = c
            /\ UNCHANGED lock
    /\ call' = [call EXCEPT ![c].pc = "clock"]
    /\ UNCHANGED <<bulk_vars, seq_vars, tb_rate, tb_capacity, tokens, last_update, now, admitted>>

\* _refill: current_time = time.time()
TBReadClock(c) ==
    /\ call[c].pc = "clock"
    /\ call' = [call EXCEPT ![c].pc = "elapsed", ![c].current_time = now]
    /\ UNCHANGED <<bulk_vars, seq_vars, tb_rate, tb_capacity, tokens, last_update, now, lock,
                   async_lock, admitted>>

\* _refill: elapsed = current_time - self.last_update
TBElapsed(c) ==
    /\ call[c].pc = "elapsed"
    /\ call' = [call EXCEPT ![c].pc = "refill", ![c].elapsed = call[c].current_time - last_update]
    /\ UNCHANGED <<bulk_vars, seq_vars, tb_rate, tb_capacity, tokens, last_update, now, lock,
                   async_lock, admitted>>

\* _refill: min(self.capacity, self.tokens + (elapsed * self.rate))
Refilled(capacity, have, elapsed, rate) == Min(Scale(capacity), have + elapsed * rate)

\* _refill: the right-hand side of the assignment to self.tokens is evaluated.
TBRefillValue(c) ==
    /\ call[c].pc = "refill"
    /\ call' = [call EXCEPT ![c].pc = "store_tokens",
                            ![c].value = Refilled(tb_capacity, tokens, call[c].elapsed, tb_rate)]
    /\ UNCHANGED <<bulk_vars, seq_vars, tb_rate, tb_capacity, tokens, last_update, now, lock,
                   async_lock, admitted>>

\* _refill: self.tokens = ...
TBStoreTokens(c) ==
    /\ call[c].pc = "store_tokens"
    /\ tokens' = call[c].value
    /\ call' = [call EXCEPT ![c].pc = "store_time"]
    /\ UNCHANGED <<bulk_vars, seq_vars, tb_rate, tb_capacity, last_update, now, lock, async_lock,
                   admitted>>

\* _refill: self.last_update = current_time
TBStoreTime(c) ==
    /\ call[c].pc = "store_time"
    /\ last_update' = call[c].current_time
    /\ call' = [call EXCEPT ![c].pc = "check"]
    /\ UNCHANGED <<bulk_vars, seq_vars, tb_rate, tb_capacity, tokens, now, lock, async_lock,
                   admitted>>

\* acquire / acquire_async: `if self.tokens >= tokens`, else `return False`.
TBCheck(c) ==
    /\ call[c].pc = "check"
    /\ c \notin WaitCallers
    /\ IF tokens >= Scale(call[c].units)
       THEN call' = [call EXCEPT ![c].pc = "take"]
       ELSE call' = [call EXCEPT ![c].pc = "unlock", ![c].returned = TRUE, ![c].ok = FALSE]
    /\ UNCHANGED <<bulk_vars, seq_vars, tb_rate, tb_capacity, tokens, last_update, now, lock,
                   async_lock, admitted>>

\* acquire / acquire_async: `self.tokens -= tokens`, the value is computed.
TBTake(c) ==
    /\ call[c].pc = "take"
    /\ call' = [call EXCEPT ![c].pc = "store_taken", ![c].value = tokens - Scale(call[c].units)]
    /\ UNCHANGED <<bulk_vars, seq_vars, tb_rate, tb_capacity, tokens, last_update, now, lock,
                   async_lock, admitted>>

\* acquire / acquire_async: `self.tokens -= tokens`, the value is stored;
\* `return True`.
TBStoreTaken(c) ==
    /\ call[c].pc = "store_taken"
    /\ tokens' = call[c].value
    /\ call' = [call EXCEPT ![c].pc = "unlock", ![c].returned = TRUE, ![c].ok = TRUE]
    /\ admitted' = admitted + call[c].units
    /\ UNCHANGED <<bulk_vars, seq_vars, tb_rate, tb_capacity, last_update, now, lock, async_lock>>

\* wait_time: `if self.tokens >= 1: return 0.0`
TBWaitCheck(c) ==
    /\ call[c].pc = "check"
    /\ c \in WaitCallers
    /\ IF tokens >= Scale(1)
       THEN call' = [call EXCEPT ![c].pc = "unlock", ![c].returned = TRUE, ![c].wait = NoWait]
       ELSE call' = [call EXCEPT ![c].pc = "needed"]
    /\ UNCHANGED <<bulk_vars, seq_vars, tb_rate, tb_capacity, tokens, last_update, now, lock,
                   async_lock, admitted>>

\* wait_time: tokens_needed = 1 - self.tokens; return tokens_needed /
\* self.rate, in seconds.
TBWaitNeeded(c) ==
    /\ call[c].pc = "needed"
    /\ call' = [call EXCEPT ![c].pc = "unlock", ![c].returned = TRUE,
                            ![c].wait = Frac(Scale(1) - tokens, TicksPerSecond * tb_rate)]
    /\ UNCHANGED <<bulk_vars, seq_vars, tb_rate, tb_capacity, tokens, last_update, now, lock,
                   async_lock, admitted>>

\* Leaving the `with` block; the locals of the call are gone, its return
\* value stays.
TBUnlock(c) ==
    /\ call[c].pc = "unlock"
    /\ IF GuardOf(c) = "_lock"
       THEN /\ lock' = NoCaller
            /\ UNCHANGED async_lock
       ELSE /\ async_lock' = NoCaller
            /\ UNCHANGED lock
    /\ call' = [call EXCEPT ![c] = [IdleCall EXCEPT !.pc = "done", !.units = call[c].units,
                                                    !.returned = TRUE, !.ok = call[c].ok,
                                                    !.wait = call[c].wait]]
    /\ UNCHANGED <<bulk_vars, seq_vars, tb_rate, tb_capacity, tokens, last_update, now, admitted>>

\* The clock advances.
Tick ==
    /\ now < MaxTime
    /\ now' = now + 1
    /\ UNCHANGED <<bulk_vars, seq_vars, tb_rate, tb_capacity, tokens, last_update, lock,
                   async_lock, call, admitted>>

(* ------------------- strategies, one call at a time -------------------- *)
(* A strategy used by one caller: each call runs from taking the lock to   *)
(* releasing it before the next one starts, and `trace` keeps what was     *)
(* called, when, and what it returned.                                      *)

\* One entry of the trace; `at` is the time under which the call's effect
\* was recorded.
Called(op, units, at, ok, wait) ==
    [op |-> op, units |-> units, at |-> at, ok |-> ok, wait |-> wait]

\* Time passes between two calls.
Advance ==
    /\ now < MaxClock
    /\ now' = now + 1
    /\ UNCHANGED <<bulk_vars, tb_state, tb_conc, seq_vars>>

\* An acquire that wants more than it takes.
AdmitsWithSpare(have, units) == have > Scale(units)

\* acquire: `if self.tokens >= tokens`
Admits(have, units) == have >= Scale(units)

\* TokenBucketStrategy.acquire(units): _refill, then take the tokens or
\* return False.
TBAcquire(units) ==
    /\ Len(trace) < MaxCalls
    /\ LET have == Refilled(tb_capacity, tokens, now - last_update, tb_rate)
           ok == Admits(have, units)
       IN /\ tokens' = IF ok THEN have - Scale(units) ELSE have
          /\ trace' = Append(trace, Called("acquire", units, now, ok, NoWait))
    /\ last_update' = now
    /\ UNCHANGED <<tb_frame, tb_rate, tb_capacity, now>>

\* wait_time: 0.0 with a whole token at hand, else (1 - tokens) / rate.
TBWait(have, rate) ==
    IF have >= Scale(1) THEN NoWait ELSE Frac(Scale(1) - have, TicksPerSecond * rate)

\* TokenBucketStrategy.wait_time(): _refill, then the time until one token.
TBWaitTime ==
    /\ Len(trace) < MaxCalls
    /\ LET have == Refilled(tb_capacity, tokens, now - last_update, tb_rate)
       IN /\ tokens' = have
          /\ trace' = Append(trace, Called("wait_time", 0, now, FALSE, TBWait(have, tb_rate)))
    /\ last_update' = now
    /\ UNCHANGED <<tb_frame, tb_rate, tb_capacity, now>>

(* -------------------------- FixedWindowStrategy ------------------------- *)
\* FixedWindowStrategy(max_requests, window_size): an empty deque.
FWConstruct(limit, window) ==
    /\ max_requests = limit
    /\ window_size = window
    /\ requests = <<>>

\* A cleanup that empties the log.
CleanupAll(log, window_start) == <<>>

\* A cleanup that also drops the request that is exactly window_size old.
RECURSIVE CleanupInclusive(_, _)
CleanupInclusive(log, window_start) ==
    IF log # <<>> /\ log[1] <= window_start
    THEN CleanupInclusive(Tail(log), window_start)
    ELSE log

\* _cleanup_old_requests: `while self.requests and self.requests[0] <
\* window_start: self.requests.popleft()`
RECURSIVE Cleanup(_, _)
Cleanup(log, window_start) ==
    IF log # <<>> /\ log[1] < window_start
    THEN Cleanup(Tail(log), window_start)
    ELSE log

\* The clock read a second time within one call: it may have moved on.
LaterReads == {t \in now..(now + 1) : t <= MaxClock}

\* FixedWindowStrategy.acquire(units): cleanup under the time read first,
\* then `units` timestamps of the time read second are appended, or False.
FWAcquire(units) ==
    /\ Len(trace) < MaxCalls
    /\ LET kept == Cleanup(requests, now - window_size)
       IN IF Len(kept) + units <= max_requests
          THEN \E current_time \in LaterReads :
                  /\ requests' = kept \o [i \in 1..units |-> current_time]
                  /\ trace' = Append(trace, Called("acquire", units, current_time, TRUE, NoWait))
                  /\ now' = current_time
          ELSE /\ requests' = kept
               /\ trace' = Append(trace, Called("acquire", units, now, FALSE, NoWait))
               /\ now' = now
    /\ UNCHANGED <<fw_frame, max_requests, window_size>>

\* FixedWindowStrategy.wait_time(): cleanup, then 0.0 below max_requests,
\* else max(0.0, (oldest_request + window_size) - time.time()), in seconds.
FWWaitTime ==
    /\ Len(trace) < MaxCalls
    /\ LET kept == Cleanup(requests, now - window_size)
       IN /\ requests' = kept
          /\ IF Len(kept) < max_requests
             THEN /\ trace' = Append(trace, Called("wait_time", 0, now, FALSE, NoWait))
                  /\ now' = now
             ELSE \E current_time \in LaterReads :
                     /\ trace' = Append(trace, Called("wait_time", 0, now, FALSE,
                                    Frac(Max(0, (kept[1] + window_size) - current_time),
                                         TicksPerSecond)))
                     /\ now' = current_time
    /\ UNCHANGED <<fw_frame, max_requests, window_size>>

(* -------------------------- LeakyBucketStrategy ------------------------- *)
\* LeakyBucketStrategy(rate, capacity): an empty queue, constructed at time 0.
LBConstruct(rate, capacity) ==
    /\ lb_rate = rate
    /\ lb_capacity = capacity
    /\ queue_size = 0
    /\ last_leak = 0

\* _leak: leaked = int(elapsed * self.rate), elapsed in ticks.
Leaked(elapsed, rate) == (elapsed * rate) \div TicksPerSecond

\* _leak: self.queue_size = max(0, self.queue_size - leaked)
Drained(size, elapsed, rate) == Max(0, size - Leaked(elapsed, rate))

\* _leak: `if leaked > 0: self.last_leak = current_time`
LeakTime(last, current_time, rate) ==
    IF Leaked(current_time - last, rate) > 0 THEN current_time ELSE last

\* LeakyBucketStrategy.acquire(units): _leak, then queue the units or
\* return False.
LBAcquire(units) ==
    /\ Len(trace) < MaxCalls
    /\ LET size == Drained(queue_size, now - last_leak, lb_rate)
           ok == size + units <= lb_capacity
       IN /\ queue_size' = IF ok THEN size + units ELSE size
          /\ trace' = Append(trace, Called("acquire", units, now, ok, NoWait))
    /\ last_leak' = LeakTime(last_leak, now, lb_rate)
    /\ UNCHANGED <<lb_frame, lb_rate, lb_capacity, now>>

\* A wait that lasts until the whole queue has leaked.
LBWaitUntilEmpty(size, capacity, rate) ==
    IF size < capacity THEN NoWait ELSE Frac(size, rate)

\* wait_time: 0.0 below capacity, else overflow / rate with
\* overflow = queue_size - capacity + 1, in seconds.
LBWait(size, capacity, rate) ==
    IF size < capacity THEN NoWait ELSE Frac(size - capacity + 1, rate)

\* LeakyBucketStrategy.wait_time(): _leak, then the time until a slot is free.
LBWaitTime ==
    /\ Len(trace) < MaxCalls
    /\ LET size == Drained(queue_size, now - last_leak, lb_rate)
       IN /\ queue_size' = size
          /\ trace' = Append(trace, Called("wait_time", 0, now, FALSE,
                                           LBWait(size, lb_capacity, lb_rate)))
    /\ last_leak' = LeakTime(last_leak, now, lb_rate)
    /\ UNCHANGED <<lb_frame, lb_rate, lb_capacity, now>>

(* ---------------------------- AdaptiveStrategy -------------------------- *)
\* The float n.
Whole(n) == Frac(n, 1)

\* a <= b, for floats held as fractions.
FracLE(a, b) == a.num * b.den <= b.num * a.den

FracMin(a, b) == IF FracLE(a, b) THEN a ELSE b
FracMax(a, b) == IF FracLE(a, b) THEN b ELSE a

\* Arithmetic on floats held as fractions.
FracAdd(a, b) == Frac(a.num * b.den + b.num * a.den, a.den * b.den)
FracSub(a, b) == Frac(a.num * b.den - b.num * a.den, a.den * b.den)
FracTimes(a, n) == Frac(a.num * n, a.den)
FracLT(a, b) == a.num * b.den < b.num * a.den

\* No feedback yet: `calls` counts the feedback calls, `last` is the one
\* made last, `streak` counts the on_success calls since the last
\* on_rate_limit, `until` is the latest end of a retry-after period asked for.
NoFeedback == [calls |-> 0, last |-> "none", streak |-> 0, until |-> 0]

\* AdaptiveStrategy(initial_rate, min_rate, max_rate), constructed at time 0.
ADConstruct(initial, lowest, highest) ==
    /\ min_rate = lowest
    /\ max_rate = highest
    /\ current_rate = Whole(initial)
    /\ ad_tokens = Whole(1)
    /\ ad_last_update = 0
    /\ consecutive_successes = 0
    /\ consecutive_failures = 0
    /\ feedback = NoFeedback

\* A streak that has to exceed ten successes.
StreakExceeded(successes) == successes > 10

\* on_success: `if self.consecutive_successes >= 10`
StreakComplete(successes) == successes >= 10

\* on_success: min(self.max_rate, self.current_rate * 1.1)
Increased(rate, highest) == FracMin(Whole(highest), Frac(rate.num * 11, rate.den * 10))

\* on_rate_limit: max(self.min_rate, self.current_rate * 0.5)
Decreased(rate, lowest) == FracMax(Whole(lowest), Frac(rate.num, rate.den * 2))

\* AdaptiveStrategy.on_success()
OnSuccess ==
    /\ feedback.calls < MaxFeedback
    /\ consecutive_failures' = 0
    /\ IF StreakComplete(consecutive_successes + 1)
       THEN /\ current_rate' = Increased(current_rate, max_rate)
            /\ consecutive_successes' = 0
       ELSE /\ current_rate' = current_rate
            /\ consecutive_successes' = consecutive_successes + 1
    /\ feedback' = [calls |-> feedback.calls + 1, last |-> "on_success",
                    streak |-> feedback.streak + 1, until |-> feedback.until]
    /\ UNCHANGED <<ad_frame, min_rate, max_rate, ad_tokens, ad_last_update, now>>

\* AdaptiveStrategy.on_rate_limit(retry_after); retry_after is in ticks and
\* 0 stands for None as well (`if retry_after:`).
OnRateLimit(retry_after) ==
    /\ feedback.calls < MaxFeedback
    /\ consecutive_failures' = consecutive_failures + 1
    /\ consecutive_successes' = 0
    /\ current_rate' = Decreased(current_rate, min_rate)
    /\ IF retry_after # 0
       THEN /\ ad_tokens' = Whole(0)
            /\ ad_last_update' = now + retry_after
       ELSE UNCHANGED <<ad_tokens, ad_last_update>>
    /\ feedback' = [calls |-> feedback.calls + 1, last |-> "on_rate_limit", streak |-> 0,
                    until |-> IF retry_after # 0
                              THEN Max(feedback.until, now + retry_after)
                              ELSE feedback.until]
    /\ UNCHANGED <<ad_frame, min_rate, max_rate, now>>

\* AdaptiveStrategy._refill after `elapsed` ticks, which is negative while
\* last_update lies ahead: min(1.0, self.tokens + elapsed * self.current_rate)
ADRefilled(have, elapsed, rate) ==
    FracMin(Whole(1), FracAdd(have, Frac(elapsed * rate.num, TicksPerSecond * rate.den)))

\* An acquire that takes a token it does not have.
ADAdmitsAlways(have, units) == TRUE

\* acquire: `if self.tokens >= tokens`
ADAdmits(have, units) == FracLE(Whole(units), have)

\* AdaptiveStrategy.acquire(units): _refill, then take the tokens or return
\* False.
ADAcquire(units) ==
    /\ Len(trace) < MaxCalls
    /\ LET have == ADRefilled(ad_tokens, now - ad_last_update, current_rate)
           ok == ADAdmits(have, units)
       IN /\ ad_tokens' = IF ok THEN FracSub(have, Whole(units)) ELSE have
          /\ trace' = Append(trace, Called("acquire", units, now, ok, NoWait))
    /\ ad_last_update' = now
    /\ UNCHANGED <<bulk_vars, tb_state, tb_conc, fw_vars, lb_vars, rm_vars, mg_vars,
                   min_rate, max_rate, current_rate, consecutive_successes,
                   consecutive_failures, feedback, now>>

\* A wait_time that ignores the tokens at hand.
ADWaitFromEmpty(have, rate) == Frac(rate.den, rate.num)

\* wait_time: 0.0 with a whole token at hand, else (1 - tokens) / current_rate.
ADWait(have, rate) ==
    IF FracLE(Whole(1), have)
    THEN NoWait
    ELSE Frac((have.den - have.num) * rate.den, have.den * rate.num)

\* AdaptiveStrategy.wait_time(): _refill, then the time until one token.
ADWaitTime ==
    /\ Len(trace) < MaxCalls
    /\ LET have == ADRefilled(ad_tokens, now - ad_last_update, current_rate)
       IN /\ ad_tokens' = have
          /\ trace' = Append(trace, Called("wait_time", 0, now, FALSE, ADWait(have, current_rate)))
    /\ ad_last_update' = now
    /\ UNCHANGED <<bulk_vars, tb_state, tb_conc, fw_vars, lb_vars, rm_vars, mg_vars,
                   min_rate, max_rate, current_rate, consecutive_successes,
                   consecutive_failures, feedback, now>>

\* The constructor call that opens the trace of a strategy in use.
Constructed(variant) == <<Called(variant, 0, 0, TRUE, NoWait)>>

\* The strategy in use is of this class.
InUse(variant) == trace # <<>> /\ trace[1].op = variant

(* --------------------------- RateLimitManager --------------------------- *)
(* Endpoints are strings, held as the sequence of their characters;        *)
(* strategies are told apart by a number, 0 being the default strategy.    *)

\* The string of n characters "a".
Chain(n) == [i \in 1..n |-> "a"]

\* The strings used as endpoints and as keys: "", "a", "aa", ... up to
\* MaxPath characters, each a prefix of the next, and next to every
\* non-empty one the string that differs from it in its last character.
Endpoints ==
    {Chain(n) : n \in 0..MaxPath} \cup {Append(Chain(n - 1), "b") : n \in 1..MaxPath}

DefaultStrategy == 0
Strategies == 1..MaxStrategies

\* No get_strategy call has returned.
NotResolved == [called |-> FALSE, endpoint |-> <<>>, strategy |-> DefaultStrategy]

\* No set_endpoint_strategy call has been made.
NothingRegistered == [order |-> <<>>, called |-> FALSE, key |-> <<>>, strategy |-> DefaultStrategy]

\* RateLimitManager(): no endpoint has a strategy of its own.
RMConstruct ==
    /\ endpoint_strategies = <<>>
    /\ resolved = NotResolved
    /\ registered = NothingRegistered

\* The positions of `key` in the dict (at most one).
PositionsOf(items, key) == {i \in 1..Len(items) : items[i].key = key}

\* An assignment that moves a key that is set again to the end.
DictSetMovesToEnd(items, key, strategy) ==
    Append(SelectSeq(items, LAMBDA item : item.key # key), [key |-> key, strategy |-> strategy])

\* self.endpoint_strategies[endpoint] = strategy: a new key goes last, an
\* existing key keeps its place and gets the new value.
DictSet(items, key, strategy) ==
    IF PositionsOf(items, key) = {}
    THEN Append(items, [key |-> key, strategy |-> strategy])
    ELSE [i \in 1..Len(items) |->
             IF items[i].key = key THEN [key |-> key, strategy |-> strategy] ELSE items[i]]

\* RateLimitManager.set_endpoint_strategy(endpoint, strategy)
SetEndpointStrategy(endpoint, strategy) ==
    /\ PositionsOf(endpoint_strategies, endpoint) = {} => Len(endpoint_strategies) < MaxKeys
    /\ endpoint_strategies' = DictSet(endpoint_strategies, endpoint, strategy)
    /\ resolved' = NotResolved
    /\ registered' = [order |-> IF \E i \in 1..Len(registered.order) : registered.order[i] = endpoint
                                THEN registered.order
                                ELSE Append(registered.order, endpoint),
                      called |-> TRUE, key |-> endpoint, strategy |-> strategy]
    /\ UNCHANGED rm_frame

\* endpoint.startswith(pattern)
StartsWith(endpoint, pattern) ==
    /\ Len(pattern) <= Len(endpoint)
    /\ SubSeq(endpoint, 1, Len(pattern)) = pattern

\* The positions of the keys that `endpoint` starts with.
Matching(items, endpoint) == {i \in 1..Len(items) : StartsWith(endpoint, items[i].key)}

\* The smallest number of a non-empty set: the first position the loop
\* over items() reaches.
First(positions) == CHOOSE i \in positions : \A j \in positions : i <= j

\* A lookup that goes straight to the prefix loop.
GetStrategyByPrefixOnly(items, endpoint) ==
    IF Matching(items, endpoint) # {}
    THEN items[First(Matching(items, endpoint))].strategy
    ELSE DefaultStrategy

\* get_strategy: the exact key if there is one, else the first key in
\* insertion order that the endpoint starts with, else the default.
GetStrategy(items, endpoint) ==
    IF PositionsOf(items, endpoint) # {}
    THEN items[First(PositionsOf(items, endpoint))].strategy
    ELSE IF Matching(items, endpoint) # {}
         THEN items[First(Matching(items, endpoint))].strategy
         ELSE DefaultStrategy

\* RateLimitManager.get_strategy(endpoint) is called and returns.
Resolve(endpoint) ==
    /\ resolved' = [called |-> TRUE, endpoint |-> endpoint,
                    strategy |-> GetStrategy(endpoint_strategies, endpoint)]
    /\ UNCHANGED <<rm_frame, endpoint_strategies, registered>>

(* ---------------------- RateLimitManager.acquire ----------------------- *)
\* RateLimitManager(): `default_strategy or TokenBucketStrategy(rate=10.0, capacity=20)`
DefaultRate == 10
DefaultCapacity == 20

\* acquire(endpoint, tokens=1, max_retries=3)
DefaultMaxRetries == 3

\* TokenBucketStrategy(rate, capacity), constructed when time.time() is `at`:
\* the parameters are stored as given.
TokenBucket(rate, capacity, at) ==
    [rate |-> rate, capacity |-> capacity, tokens |-> Whole(capacity), last_update |-> at]

\* TokenBucketStrategy._refill, called when time.time() is `at`.
BucketRefill(bucket, at) ==
    [bucket EXCEPT
        !.tokens = FracMin(Whole(bucket.capacity),
                           FracAdd(bucket.tokens,
                                   FracTimes(FracSub(at, bucket.last_update), bucket.rate))),
        !.last_update = at]

\* `self.tokens >= tokens`
BucketAdmits(bucket, units) == FracLE(Whole(units), bucket.tokens)

\* `self.tokens -= tokens`
BucketTake(bucket, units) == [bucket EXCEPT !.tokens = FracSub(@, Whole(units))]

\* TokenBucketStrategy.wait_time after its _refill: `tokens_needed / self.rate`
\* raises ZeroDivisionError.
BucketWaitRaises(bucket) == FracLT(bucket.tokens, Whole(1)) /\ bucket.rate = 0

\* TokenBucketStrategy.wait_time after its _refill, when it returns.
BucketWaitTime(bucket) ==
    IF FracLE(Whole(1), bucket.tokens)
    THEN NoWait
    ELSE Frac(bucket.tokens.den - bucket.tokens.num, bucket.tokens.den * bucket.rate)

\* self.stats as __init__ and reset_stats make it.
NoStats == [total_requests |-> 0, throttled_requests |-> 0, total_wait_time |-> Whole(0)]

\* Nothing counted: acquire calls ever made, and since the last reset_stats
\* the acquire calls and the attempts that were refused.
NoTally == [started |-> 0, calls |-> 0, failures |-> 0]

\* get_stats has not been called since self.stats was last written.
NoStatsRead == [calls |-> 0, value |-> NoStats]

\* A caller that is not inside acquire and has not called it yet.
NotAcquiring ==
    [pc |-> "idle", endpoint |-> <<>>, units |-> 0, max_retries |-> 0,
     strategy |-> DefaultStrategy, attempt |-> 0, loaded |-> 0, loaded_wait |-> NoWait,
     stale |-> FALSE, wait_time |-> NoWait, wake |-> NoWait, returned |-> "none",
     tried |-> <<>>, suspensions |-> 0]

\* RateLimitManager(default_strategy) used by `threads` callers, with the
\* strategies that will be registered: every strategy is a
\* TokenBucketStrategy(rate, capacity) of its own.
MGConstruct(rate, capacity, threads) ==
    /\ clock = Whole(0)
    /\ buckets = [s \in {DefaultStrategy} \cup Strategies |-> TokenBucket(rate, capacity, Whole(0))]
    /\ stats = NoStats
    /\ acquiring = [c \in 1..threads |-> NotAcquiring]
    /\ last_stats = NoStatsRead
    /\ tally = NoTally

\* Time passes by one tick.
ClockTick ==
    /\ FracLE(FracAdd(clock, Frac(1, TicksPerSecond)), Frac(MaxClock, TicksPerSecond))
    /\ clock' = FracAdd(clock, Frac(1, TicksPerSecond))
    /\ UNCHANGED <<mg_frame, rm_vars, wrapper, buckets, stats, acquiring, last_stats, tally>>

\* `x += 1` on the dict the value was loaded from: a dict that reset_stats
\* has replaced meanwhile is no longer self.stats.
Stored(c, key, value) == IF acquiring[c].stale THEN stats ELSE [stats EXCEPT ![key] = value]

\* acquire, line 73 and the load of line 74: the strategy is looked up and
\* stats['total_requests'] is read.
Acquire(c, endpoint, units, max_retries) ==
    /\ acquiring[c].pc = "idle"
    /\ acquiring' = [acquiring EXCEPT ![c] =
          [NotAcquiring EXCEPT
              !.pc = "count", !.endpoint = endpoint, !.units = units,
              !.max_retries = max_retries,
              !.strategy = GetStrategy(endpoint_strategies, endpoint),
              !.loaded = stats.total_requests]]
    /\ tally' = [tally EXCEPT !.started = @ + 1, !.calls = @ + 1]
    /\ UNCHANGED <<mg_frame, rm_vars, wrapper, clock, buckets, stats, last_stats>>

\* acquire has returned, or raised: its locals are gone; the strategies it
\* made its attempts on stay on record.
Returned(tried, value) == [NotAcquiring EXCEPT !.returned = value, !.tried = tried]

\* acquire, the store of line 74.
CountRequest(c) ==
    /\ acquiring[c].pc = "count"
    /\ stats' = Stored(c, "total_requests", acquiring[c].loaded + 1)
    /\ acquiring' = [acquiring EXCEPT ![c].pc = "try", ![c].stale = FALSE]
    /\ last_stats' = NoStatsRead
    /\ UNCHANGED <<mg_frame, rm_vars, wrapper, clock, buckets, tally>>

\* A strategy that is looked up again at every attempt.
AttemptStrategyLookedUp(held, items, endpoint) == GetStrategy(items, endpoint)

\* The strategy an attempt is made on: the local `strategy` of line 73.
AttemptStrategy(held, items, endpoint) == held

\* A caller that sleeps after its final attempt as well.
SuspendsWhileThrottled(wait, attempt, max_retries) == FracLT(NoWait, wait)

\* A caller that never sleeps.
NeverSuspends(wait, attempt, max_retries) == FALSE

\* `wait_time > 0 and attempt < max_retries - 1`
Suspends(wait, attempt, max_retries) == FracLT(NoWait, wait) /\ attempt < max_retries - 1

\* acquire, lines 77-78 and the load of line 80: strategy.acquire(tokens)
\* under the strategy's lock; True is returned, or stats['throttled_requests']
\* is read.
Try(c) ==
    LET a == acquiring[c]
        s == AttemptStrategy(a.strategy, endpoint_strategies, a.endpoint)
        refilled == BucketRefill(buckets[s], clock)
    IN  /\ a.pc = "try"
        /\ IF BucketAdmits(refilled, a.units)
           THEN /\ buckets' = [buckets EXCEPT ![s] = BucketTake(refilled, a.units)]
                /\ acquiring' = [acquiring EXCEPT ![c] = Returned(Append(a.tried, s), "true")]
                /\ tally' = tally
           ELSE /\ buckets' = [buckets EXCEPT ![s] = refilled]
                /\ acquiring' = [acquiring EXCEPT ![c].pc = "throttle",
                                                  ![c].loaded = stats.throttled_requests,
                                                  ![c].tried = Append(@, s)]
                /\ tally' = [tally EXCEPT !.failures = @ + 1]
        /\ UNCHANGED <<mg_frame, rm_vars, wrapper, clock, stats, last_stats>>

\* acquire, the store of line 80.
Throttle(c) ==
    /\ acquiring[c].pc = "throttle"
    /\ stats' = Stored(c, "throttled_requests", acquiring[c].loaded + 1)
    /\ acquiring' = [acquiring EXCEPT ![c].pc = "wait", ![c].stale = FALSE]
    /\ last_stats' = NoStatsRead
    /\ UNCHANGED <<mg_frame, rm_vars, wrapper, clock, buckets, tally>>

\* acquire, lines 81-83, the load of line 88 and lines 90-94:
\* strategy.wait_time() under the strategy's lock, which may raise; then
\* stats['total_wait_time'] is read, or the loop is left and False returned.
WaitTime(c) ==
    LET a == acquiring[c]
        s == AttemptStrategy(a.strategy, endpoint_strategies, a.endpoint)
        refilled == BucketRefill(buckets[s], clock)
    IN  /\ a.pc = "wait"
        /\ buckets' = [buckets EXCEPT ![s] = refilled]
        /\ IF BucketWaitRaises(refilled)
           THEN acquiring' = [acquiring EXCEPT ![c] = Returned(a.tried, "raised")]
           ELSE IF Suspends(BucketWaitTime(refilled), a.attempt, a.max_retries)
                THEN acquiring' = [acquiring EXCEPT ![c].pc = "waited",
                                                    ![c].wait_time = BucketWaitTime(refilled),
                                                    ![c].loaded_wait = stats.total_wait_time]
                ELSE acquiring' = [acquiring EXCEPT ![c] = Returned(a.tried, "false")]
        /\ UNCHANGED <<mg_frame, rm_vars, wrapper, clock, stats, last_stats, tally>>

\* acquire, the store of line 88 and the call of time.sleep(wait_time).
AddWait(c) ==
    /\ acquiring[c].pc = "waited"
    /\ stats' = Stored(c, "total_wait_time", FracAdd(acquiring[c].loaded_wait, acquiring[c].wait_time))
    /\ acquiring' = [acquiring EXCEPT ![c].pc = "sleeping", ![c].stale = FALSE,
                                      ![c].wake = FracAdd(clock, acquiring[c].wait_time),
                                      ![c].suspensions = @ + 1]
    /\ last_stats' = NoStatsRead
    /\ UNCHANGED <<mg_frame, rm_vars, wrapper, clock, buckets, tally>>

\* time.sleep returns, not before the time asked for has passed; the next
\* attempt of the loop begins.
Wake(c) ==
    /\ acquiring[c].pc = "sleeping"
    /\ FracLE(acquiring[c].wake, clock)
    /\ acquiring' = [acquiring EXCEPT ![c].pc = "try", ![c].attempt = @ + 1]
    /\ UNCHANGED <<mg_frame, rm_vars, wrapper, clock, buckets, stats, last_stats, tally>>

\* Nothing else happens while a caller sleeps: time passes until it is due.
Elapse(c) ==
    /\ acquiring[c].pc = "sleeping"
    /\ FracLT(clock, acquiring[c].wake)
    /\ clock' = acquiring[c].wake
    /\ UNCHANGED <<mg_frame, rm_vars, wrapper, buckets, stats, acquiring, last_stats, tally>>

\* get_stats on a dict that has at least one request: the ratios it adds.
Derived(counters) ==
    [throttle_rate |-> Frac(counters.throttled_requests, counters.total_requests),
     avg_wait_time |-> IF counters.throttled_requests > 0
                       THEN Frac(counters.total_wait_time.num,
                                 counters.total_wait_time.den * counters.throttled_requests)
                       ELSE Whole(0)]

\* What get_stats returns.
StatsReturned(counters) ==
    IF counters.total_requests > 0 THEN Derived(counters) @@ counters ELSE counters

\* get_stats without `.copy()`: the ratios are added to self.stats itself.
StatsAliased(own, returned) == returned

\* self.stats after get_stats: the ratios were added to the copy.
StatsKept(own, returned) == own

\* RateLimitManager.get_stats
GetStats ==
    /\ last_stats' = [calls |-> Min(last_stats.calls + 1, MaxGets),
                      value |-> StatsReturned(stats)]
    /\ stats' = StatsKept(stats, StatsReturned(stats))
    /\ UNCHANGED <<mg_frame, rm_vars, wrapper, clock, buckets, acquiring, tally>>

\* RateLimitManager.reset_stats: self.stats is a new dict; a caller that
\* has read a counter and not yet stored it still holds the old one.
ResetStats ==
    /\ stats # NoStats
    /\ stats' = NoStats
    /\ tally' = [NoTally EXCEPT !.started = tally.started]
    /\ acquiring' = [c \in DOMAIN acquiring |->
                        IF acquiring[c].pc \in {"count", "throttle", "waited"}
                        THEN [acquiring[c] EXCEPT !.stale = TRUE]
                        ELSE acquiring[c]]
    /\ last_stats' = NoStatsRead
    /\ UNCHANGED <<mg_frame, rm_vars, wrapper, clock, buckets>>

\* The endpoint that is acquired from a manager in use, and the keys that
\* are registered with it: the endpoint itself and a prefix of it.
Acquired == <<"a">>
Prefixes == {<<>>, Acquired}

(* ----------------------------- rate_limited ---------------------------- *)
\* rate_limited(strategy, tokens, max_retries)(func): the wrapper is made, and
\* has not been called.
RateLimited(units, max_retries) ==
    wrapper = [units |-> units, max_retries |-> max_retries, calls |-> 0, pc |-> "idle",
               attempt |-> 0, attempts |-> 0, wake |-> NoWait, invoked |-> 0,
               outcome |-> "none"]

\* sync_wrapper is called: the loop of line 60 begins.
WrapperCall ==
    /\ wrapper.pc = "idle"
    /\ wrapper' = [wrapper EXCEPT !.pc = "try", !.calls = @ + 1, !.attempt = 0,
                                  !.attempts = 0, !.invoked = 0, !.outcome = "none"]
    /\ UNCHANGED <<mg_frame, rm_vars, clock, buckets, stats, acquiring, last_stats, tally>>

\* sync_wrapper, lines 61-62: strategy.acquire(tokens); when it succeeds the
\* function is invoked and what it returns is returned.
WrapperTry ==
    LET refilled == BucketRefill(buckets[DefaultStrategy], clock)
    IN  /\ wrapper.pc = "try"
        /\ IF BucketAdmits(refilled, wrapper.units)
           THEN /\ buckets' = [buckets EXCEPT ![DefaultStrategy] = BucketTake(refilled, wrapper.units)]
                /\ wrapper' = [wrapper EXCEPT !.pc = "idle", !.attempts = @ + 1,
                                              !.invoked = @ + 1, !.outcome = "returned"]
           ELSE /\ buckets' = [buckets EXCEPT ![DefaultStrategy] = refilled]
                /\ wrapper' = [wrapper EXCEPT !.pc = "wait", !.attempts = @ + 1]
        /\ UNCHANGED <<mg_frame, rm_vars, clock, stats, acquiring, last_stats, tally>>

\* sync_wrapper, lines 64-73: strategy.wait_time(); the wrapper sleeps, or goes
\* on to the next attempt at once, or has made its last attempt and raises
\* RuntimeError.
WrapperWaitTime ==
    LET refilled == BucketRefill(buckets[DefaultStrategy], clock)
        wait == BucketWaitTime(refilled)
    IN  /\ wrapper.pc = "wait"
        /\ ~BucketWaitRaises(refilled)
        /\ buckets' = [buckets EXCEPT ![DefaultStrategy] = refilled]
        /\ IF FracLT(NoWait, wait) /\ wrapper.attempt < wrapper.max_retries - 1
           THEN wrapper' = [wrapper EXCEPT !.pc = "sleeping", !.wake = FracAdd(clock, wait)]
           ELSE IF wrapper.attempt + 1 < wrapper.max_retries
                THEN wrapper' = [wrapper EXCEPT !.pc = "try", !.attempt = @ + 1]
                ELSE wrapper' = [wrapper EXCEPT !.pc = "idle", !.outcome = "RuntimeError"]
        /\ UNCHANGED <<mg_frame, rm_vars, clock, stats, acquiring, last_stats, tally>>

\* time.sleep returns, not before the time asked for has passed.
WrapperWake ==
    /\ wrapper.pc = "sleeping"
    /\ FracLE(wrapper.wake, clock)
    /\ wrapper' = [wrapper EXCEPT !.pc = "try", !.attempt = @ + 1, !.wake = NoWait]
    /\ UNCHANGED <<mg_frame, rm_vars, clock, buckets, stats, acquiring, last_stats, tally>>

(* ----------------------------- get_summary ----------------------------- *)
WithStatus(s) == Cardinality({i \in Ops : operations[i].result.status = s})

GetSummary == [total |-> NumOps,
               completed |-> Len(completed_operations),
               success |-> WithStatus(SUCCESS),
               failed |-> WithStatus(FAILED),
               rolled_back |-> WithStatus(ROLLED_BACK)]

(* ------------------------------- claims -------------------------------- *)
\* The operations whose action has started and not yet finished.
Running == {i \in 1..Len(pc) : pc[i] = "running"}

\* The tasks that hold a slot of the semaphore.
Holders == {i \in 1..Len(pc) : pc[i] \in {"running", "observing"}}

\* The number of operations whose action has finished in the current run.
Finished == Cardinality({i \in 1..Len(hist.action) : hist.action[i] # "none"})

AsyncReturned == phase = "returned" /\ mode = "async"
SyncReturned == phase = "returned" /\ mode = "sync"

\* C1: the list execute_async returns has one entry per added operation,
\* and entry i is the result of the i-th added operation (same
\* operation_id), whatever the order in which the actions completed.
C1_ResultsInSubmissionOrder ==
    AsyncReturned =>
        /\ Len(results) = NumOps
        /\ \A i \in Ops : /\ results[i].op = i
                          /\ Deref(results[i]).operation_id = operations[i].operation_id

\* C1 witness: three operations, the second raised, the third completed
\* before the first.
C1_Witness ==
    /\ AsyncReturned
    /\ NumOps = 3
    /\ hist.action = <<"returned", "raised", "returned">>
    /\ completed_operations = <<3, 1>>

\* C2: during execute_async the number of actions started and not finished
\* never exceeds max_concurrent, and every started action holds one of the
\* max_concurrent slots of the semaphore.
C2_ConcurrencyBounded ==
    phase = "gather" =>
        /\ Cardinality(Running) <= max_concurrent
        /\ semaphore >= 0
        /\ Cardinality(Holders) = max_concurrent - semaphore

\* C2 witness: the gate is full with two running actions and a task waits.
C2_Witness ==
    /\ phase = "gather"
    /\ max_concurrent = 2
    /\ Cardinality(Running) = 2
    /\ waiters # <<>>

\* C3: the units a token bucket has admitted never exceed its initial
\* capacity plus what can have been refilled since, under every
\* interleaving of callers of acquire, acquire_async and wait_time.
C3_NoOverAdmission ==
    Scale(admitted) <= Scale(tb_capacity) + tb_rate * now

\* The first run of execute_async on a manager, over [A(ok, rollback_A),
\* B(raises), C(ok, rollback_C)], has returned.
C4_Scenario ==
    /\ AsyncReturned
    /\ runs = 1
    /\ NumOps = 3
    /\ operations[1].has_rollback
    /\ operations[3].has_rollback
    /\ hist.action = <<"returned", "raised", "returned">>

\* C4: in that scenario rollback_A and rollback_C were each invoked exactly
\* once when rollback is enabled; with rollback disabled no compensating
\* action is ever invoked.
C4_RollbackOnceEach ==
    /\ (C4_Scenario /\ enable_rollback) =>
           /\ Count(hist.rollbacks, 1) = 1
           /\ Count(hist.rollbacks, 3) = 1
    /\ ~enable_rollback => hist.rollbacks = <<>>

\* C4 witness: the scenario with rollback enabled, C having completed before A.
C4_Witness ==
    /\ C4_Scenario
    /\ enable_rollback
    /\ completed_operations = <<3, 1>>

\* The operations of s that have a compensating action.
WithRollback(s) == SelectSeq(s, LAMBDA i : operations[i].has_rollback)

\* C5: the compensating actions invoked by the rollback of execute_async
\* are those of the operations in completed_operations that have one, in
\* the reverse of the order of completed_operations.
C5_ReverseCompletionOrder ==
    /\ (phase = "rollback" /\ mode = "async") =>
           hist.rollbacks = WithRollback(SubSeq(Reverse(completed_operations), 1,
                                                Len(completed_operations) - rb_idx))
    /\ AsyncReturned =>
           hist.rollbacks = IF FailedOps(results) # {} /\ enable_rollback
                            THEN WithRollback(Reverse(completed_operations))
                            ELSE <<>>

\* C5 witness: the first operation completed after the third, so the
\* rollback ran in submission order, the reverse of the completion order.
C5_Witness ==
    /\ AsyncReturned
    /\ completed_operations = <<3, 1>>
    /\ hist.rollbacks = <<1, 3>>

\* C6: in execute_async every operation's action has finished before the
\* first compensating action is invoked and before the call returns; an
\* action that raised gives a Failed result for its operation, and a Failed
\* result is only given to an operation whose own action or observer call
\* raised.
C6_FailureIsolated ==
    (mode = "async" /\ phase \in {"rollback", "returned"}) =>
        \A i \in Ops :
            /\ hist.action[i] # "none"
            /\ Count(hist.invoked, i) = 1
            /\ hist.action[i] = "raised" => Deref(results[i]).status = FAILED
            /\ Deref(results[i]).status = FAILED =>
                   (hist.action[i] = "raised" \/ hist.observer[i] = "raised")

\* C6 witness: the first action raised, its two siblings ran and succeeded,
\* and the rollback has started.
C6_Witness ==
    /\ mode = "async"
    /\ phase = "rollback"
    /\ hist.action = <<"raised", "returned", "returned">>
    /\ hist.rollbacks # <<>>

\* C7: execute_sync invokes the actions in submission order, each at most
\* once; with rollback enabled, once an action has raised the rollback is
\* under way or over and no later operation's action is invoked.
C7_SyncFailFast ==
    (mode = "sync" /\ phase \in {"sync", "sync_notify", "rollback", "returned"}) =>
        /\ hist.invoked = [i \in 1..Len(hist.invoked) |-> i]
        /\ Len(hist.invoked) <= NumOps
        /\ enable_rollback =>
               \A i \in 1..Len(hist.invoked) :
                   hist.action[i] = "raised" =>
                       /\ Len(hist.invoked) = i
                       /\ phase \in {"rollback", "returned"}

\* C7 witness: of three operations the second raised, the first was rolled
\* back and the third never ran.
C7_Witness ==
    /\ SyncReturned
    /\ enable_rollback
    /\ NumOps = 3
    /\ hist.invoked = <<1, 2>>
    /\ hist.action[2] = "raised"
    /\ hist.rollbacks = <<1>>

\* C8: the list execute_sync returns has a result for every operation whose
\* action was invoked, the Failed result of an operation whose action raised
\* included.
C8_SyncResultsComplete ==
    SyncReturned =>
        \A i \in Range(hist.invoked) :
            \E j \in 1..Len(results) :
                /\ results[j].op = i
                /\ hist.action[i] = "raised" => Deref(results[j]).status = FAILED

\* C9: after execute_async has returned every operation's result field is
\* set, get_summary()['failed'] is the number of Failed results returned,
\* and success + failed + rolled_back is the number of operations executed.
C9_SummaryAgrees ==
    AsyncReturned =>
        /\ \A i \in Ops : operations[i].result.status \in {SUCCESS, FAILED, ROLLED_BACK}
        /\ GetSummary.failed = Cardinality(FailedOps(results))
        /\ GetSummary.success + GetSummary.failed + GetSummary.rolled_back = NumOps

\* C10: when a run with an observer has returned, the observer was called
\* exactly once for every operation whose action finished, the j-th call
\* with (j, number of operations).
C10_ProgressEveryOperation ==
    (phase = "returned" /\ on_progress) =>
        /\ Len(hist.progress) = Finished
        /\ \A i \in Range(hist.invoked) :
               Cardinality({j \in 1..Len(hist.progress) : hist.progress[j].op = i}) = 1
        /\ \A j \in 1..Len(hist.progress) :
               /\ hist.progress[j].completed = j
               /\ hist.progress[j].total = NumOps

\* The run in progress or just returned is the first one of the manager.
FirstRun == runs = 1 /\ mode # "none"

\* C11: in a run on a fresh manager, an operation whose action raised never
\* has status ROLLED_BACK, and an operation has status ROLLED_BACK only if
\* its action returned and its compensating action was invoked and returned
\* without raising.
C11_RolledBackOnlyAfterSuccess ==
    FirstRun =>
        \A i \in Ops :
            operations[i].result.status = ROLLED_BACK =>
                /\ hist.action[i] = "returned"
                /\ Count(hist.rollbacks, i) > Count(hist.rb_raised, i)

C11_Witness ==
    /\ FirstRun
    /\ phase = "returned"
    /\ NumOps = 3
    /\ hist.action = <<"returned", "returned", "raised">>
    /\ hist.rollbacks = <<2, 1>>
    /\ hist.rb_raised = <<2>>
    /\ operations[1].result.status = ROLLED_BACK
    /\ operations[2].result.status = SUCCESS
    /\ operations[3].result.status # ROLLED_BACK

\* A step in which a compensating action is invoked and raises.
CompensationRaises ==
    /\ phase = "rollback"
    /\ Len(hist'.rb_raised) = Len(hist.rb_raised) + 1

\* C12: a compensating action that raises leaves every operation's status as
\* it was and the rollback goes on with the next operation; when a rollback
\* in which a compensating action raised is over, the compensating action of
\* every completed operation that has one was invoked.
C12_RollbackSurvivesRaise ==
    /\ [][CompensationRaises =>
            /\ operations' = operations
            /\ phase' = "rollback"
            /\ rb_idx' = rb_idx - 1]_vars
    /\ [](phase = "returned" /\ hist.rb_raised # <<>> =>
            \A i \in Ops :
                operations[i].has_rollback =>
                    Count(hist.rollbacks, i) = Count(completed_operations, i))

C12_Witness ==
    /\ phase = "returned"
    /\ NumOps = 3
    /\ completed_operations = <<1, 2>>
    /\ hist.rollbacks = <<2, 1>>
    /\ hist.rb_raised = <<2>>
    /\ operations[2].result.status = SUCCESS
    /\ operations[1].result.status = ROLLED_BACK

\* C13: after a run in which compensating actions raised, one of the
\* counters of get_summary() is the number of compensating actions that
\* raised. (The claim asks for a counter dedicated to it; this only asks
\* that some counter has the value.)
C13_RollbackFailureCounter ==
    phase = "returned" /\ hist.rb_raised # <<>> =>
        \E key \in DOMAIN GetSummary : GetSummary[key] = Len(hist.rb_raised)

\* A step in which a compensating action is invoked.
CompensationInvoked ==
    /\ phase = "rollback"
    /\ Len(hist'.rollbacks) = Len(hist.rollbacks) + 1

\* C14: over any sequence of execute_sync / execute_async calls without
\* clear(), a compensating action is never invoked for an operation whose
\* status is already ROLLED_BACK, and never a second time for the same
\* operation within one rollback pass.
C14_RollbackSkipsRolledBack ==
    [][CompensationInvoked =>
            /\ operations[RollbackTarget].result.status # ROLLED_BACK
            /\ Count(hist.rollbacks, RollbackTarget) = 0]_vars

\* execute_async is inside gather and every task waits at the semaphore.
AllTasksWaiting ==
    /\ phase = "gather"
    /\ NumOps > 0
    /\ \A i \in Ops : pc[i] = "waiting"

\* C15: with max_concurrent = 0 execute_async is refused before any action
\* starts; it is never left with every task waiting and nothing to wake them.
C15_ZeroConcurrencyRejected ==
    max_concurrent = 0 => ~AllTasksWaiting

\* The first j calls of the trace are all acquire(1).
OnlyAcquireOne(j) ==
    \A i \in 1..j : trace[i].op = "acquire" /\ trace[i].units = 1

\* Calls first..last of the trace were all made at time t.
AllAt(first, last, t) == \A i \in first..last : trace[i].at = t

\* C16: on a new TokenBucketStrategy(R, C) the acquire(1) calls made with no
\* time elapsed return True for the first C and False from the (C+1)th on;
\* when at least C+1 were made and 1/R seconds are then waited, the next
\* acquire(1) returns True and the ones after it, at the same instant,
\* return False.
C16_BurstThenOnePerInterval ==
    \A j \in 1..Len(trace) :
        OnlyAcquireOne(j) =>
            /\ AllAt(1, j, 0) => (trace[j].ok <=> j <= tb_capacity)
            /\ TicksPerSecond % tb_rate = 0 =>
                  \A n \in (tb_capacity + 1)..(j - 1) :
                      AllAt(1, n, 0) /\ AllAt(n + 1, j, TicksPerSecond \div tb_rate) =>
                          (trace[j].ok <=> j = n + 1)

C16_Witness ==
    /\ tb_rate = 2
    /\ tb_capacity = 2
    /\ Len(trace) = 5
    /\ OnlyAcquireOne(5)
    /\ AllAt(1, 3, 0)
    /\ AllAt(4, 5, 1)
    /\ [i \in 1..5 |-> trace[i].ok] = <<TRUE, TRUE, FALSE, TRUE, FALSE>>

\* The call that was made last.
LastCall == trace[Len(trace)]

\* A step that is a call of acquire(1).
AcquireOneCalled ==
    /\ Len(trace') = Len(trace) + 1
    /\ trace'[Len(trace')].op = "acquire"
    /\ trace'[Len(trace')].units = 1

\* C17: an acquire(1) on a FixedWindowStrategy(M, W) that holds fewer than M
\* requests returns True; one that holds M requests returns False while
\* fewer than W seconds have elapsed since the earliest of them, and True
\* once W seconds have elapsed.
C17_WindowAdmission ==
    [][AcquireOneCalled =>
          IF Len(requests) < max_requests
          THEN trace'[Len(trace')].ok
          ELSE trace'[Len(trace')].ok <=> now - requests[1] >= window_size]_vars

\* The same with `more than W seconds`, which is what the code does.
FW_AdmissionAfterWindow ==
    [][AcquireOneCalled =>
          IF Len(requests) < max_requests
          THEN trace'[Len(trace')].ok
          ELSE trace'[Len(trace')].ok <=> now - requests[1] > window_size]_vars

\* Nothing has leaked from a new leaky bucket up to call j: int(elapsed *
\* rate) was 0 at every call so far.
NoLeakUpTo(j) == \A i \in 1..j : Leaked(trace[i].at, lb_rate) = 0

\* C18: on a new LeakyBucketStrategy(R, C) the acquire(1) calls made before
\* anything leaks return True for the first C and False after that, and a
\* wait_time() that finds the queue full returns exactly 1/R.
C18_FullQueueWaitsOneInterval ==
    /\ \A j \in 1..Len(trace) :
          OnlyAcquireOne(j) /\ NoLeakUpTo(j) => (trace[j].ok <=> j <= lb_capacity)
    /\ trace # <<>> /\ LastCall.op = "wait_time" /\ queue_size = lb_capacity =>
          LastCall.wait = Frac(1, lb_rate)

C18_Witness ==
    /\ lb_rate = 2
    /\ lb_capacity = 2
    /\ Len(trace) = 4
    /\ OnlyAcquireOne(3)
    /\ NoLeakUpTo(4)
    /\ [i \in 1..3 |-> trace[i].ok] = <<TRUE, TRUE, FALSE>>
    /\ LastCall.op = "wait_time"
    /\ LastCall.wait = [num |-> 1, den |-> 2]

\* A step that is a call of on_success / of on_rate_limit.
SuccessReported == feedback'.calls = feedback.calls + 1 /\ feedback'.last = "on_success"
RateLimitReported == feedback'.calls = feedback.calls + 1 /\ feedback'.last = "on_rate_limit"

\* C19: the on_success call that completes ten in a row since the last
\* on_rate_limit (or since the last increase) multiplies current_rate by 1.1,
\* capped at max_rate, and starts a new streak, any other on_success leaves
\* current_rate alone; every on_rate_limit halves current_rate, floored at
\* min_rate, and resets the streak; current_rate stays within
\* [min_rate, max_rate].
C19_AdaptiveFeedback ==
    /\ [][SuccessReported =>
             IF (feedback.streak + 1) % 10 = 0
             THEN /\ current_rate' = FracMin(Whole(max_rate),
                                             Frac(current_rate.num * 11, current_rate.den * 10))
                  /\ consecutive_successes' = 0
             ELSE /\ current_rate' = current_rate
                  /\ consecutive_successes' = consecutive_successes + 1]_vars
    /\ [][RateLimitReported =>
             /\ current_rate' = FracMax(Whole(min_rate),
                                        Frac(current_rate.num, current_rate.den * 2))
             /\ consecutive_successes' = 0]_vars
    /\ [](/\ FracLE(Whole(min_rate), current_rate)
          /\ FracLE(current_rate, Whole(max_rate))
          /\ consecutive_successes = feedback.streak % 10)

C19_Witness ==
    /\ min_rate = 1
    /\ max_rate = 2
    /\ feedback.calls = 12
    /\ feedback.streak = 10
    /\ feedback.last = "on_success"
    /\ consecutive_successes = 0
    /\ current_rate = [num |-> 11, den |-> 10]

\* C20: get_strategy returns the strategy registered under the endpoint
\* itself whenever there is one, also when another registered key is a
\* prefix of the endpoint; it returns the default strategy when no
\* registered key equals the endpoint or is a prefix of it.
C20_ExactMatchThenDefault ==
    resolved.called =>
        /\ \A i \in 1..Len(endpoint_strategies) :
              endpoint_strategies[i].key = resolved.endpoint =>
                  resolved.strategy = endpoint_strategies[i].strategy
        /\ (\A i \in 1..Len(endpoint_strategies) :
               ~StartsWith(resolved.endpoint, endpoint_strategies[i].key)) =>
                  resolved.strategy = DefaultStrategy

C20_Witness ==
    /\ endpoint_strategies = <<[key |-> <<"a">>, strategy |-> 1],
                               [key |-> <<"a", "b">>, strategy |-> 2]>>
    /\ resolved = [called |-> TRUE, endpoint |-> <<"a", "b">>, strategy |-> 2]

\* The last get_strategy call found no key equal to its endpoint and at
\* least one key that the endpoint starts with.
ResolvedByPrefix ==
    /\ resolved.called
    /\ PositionsOf(endpoint_strategies, resolved.endpoint) = {}
    /\ Matching(endpoint_strategies, resolved.endpoint) # {}

\* C21: without an exact match, get_strategy returns the strategy of the
\* longest registered key that the endpoint starts with.
C21_LongestPrefixWins ==
    ResolvedByPrefix =>
        \A i \in Matching(endpoint_strategies, resolved.endpoint) :
            (\A j \in Matching(endpoint_strategies, resolved.endpoint) :
                Len(endpoint_strategies[j].key) <= Len(endpoint_strategies[i].key)) =>
                    resolved.strategy = endpoint_strategies[i].strategy

\* The strategy the dict holds for a key it has.
StrategyOf(key) == endpoint_strategies[First(PositionsOf(endpoint_strategies, key))].strategy

\* The keys the last endpoint starts with, as positions in the order of
\* first registration.
RegisteredPrefixes ==
    {i \in 1..Len(registered.order) : StartsWith(resolved.endpoint, registered.order[i])}

\* C22: without an exact match, get_strategy returns the strategy of the
\* key registered first among those the endpoint starts with; setting a key
\* again leaves every key at its place and makes the key hold the strategy
\* given last.
C22_FirstRegisteredWins ==
    /\ ResolvedByPrefix =>
          resolved.strategy = StrategyOf(registered.order[First(RegisteredPrefixes)])
    /\ [i \in 1..Len(endpoint_strategies) |-> endpoint_strategies[i].key] = registered.order
    /\ registered.called => StrategyOf(registered.key) = registered.strategy

C22_Witness ==
    /\ registered.order = <<<<>>, <<"a">>>>
    /\ registered.key = <<>>
    /\ registered.strategy = 2
    /\ endpoint_strategies = <<[key |-> <<>>, strategy |-> 2], [key |-> <<"a">>, strategy |-> 1]>>
    /\ resolved = [called |-> TRUE, endpoint |-> <<"a", "b">>, strategy |-> 2]

\* The strategy a caller holds was constructed with a positive rate and a
\* positive capacity.
HoldsValidStrategy(c) ==
    /\ buckets[acquiring[c].strategy].rate > 0
    /\ buckets[acquiring[c].strategy].capacity > 0

\* C23: on a strategy with valid parameters, acquire returns False only when
\* max_retries attempts have been made and refused; it never leaves the loop
\* after fewer attempts.
C23_GivesUpOnlyAfterMaxRetries ==
    [][\A c \in DOMAIN acquiring :
          (/\ HoldsValidStrategy(c)
           /\ acquiring[c].pc # "idle"
           /\ acquiring'[c].pc = "idle"
           /\ acquiring'[c].returned = "false")
              => Len(acquiring[c].tried) = acquiring[c].max_retries]_vars

\* C24: acquire ends by returning True or False; no error of the strategy
\* escapes it.
C24_AcquireNeverRaises ==
    \A c \in DOMAIN acquiring : acquiring[c].returned # "raised"

\* C25: a strategy on which acquire or wait_time is called has a positive
\* rate and a positive capacity, as the constructor rejects anything else.
C25_InvalidParametersRejected ==
    \A c \in DOMAIN acquiring :
        acquiring[c].tried # <<>> =>
            \A i \in 1..Len(acquiring[c].tried) :
                /\ buckets[acquiring[c].tried[i]].rate > 0
                /\ buckets[acquiring[c].tried[i]].capacity > 0

\* No caller is inside acquire.
NobodyAcquiring == \A c \in DOMAIN acquiring : acquiring[c].pc = "idle"

\* C26: once the acquire calls made have returned, total_requests is the
\* number of acquire calls since the last reset_stats and throttled_requests
\* the number of attempts refused since then, also when the calls were made
\* by several threads.
C26_StatsExact ==
    NobodyAcquiring =>
        /\ stats.total_requests = tally.calls
        /\ stats.throttled_requests = tally.failures

\* The counters of self.stats as a get_stats call returned them.
CountersOf(returned) == [key \in DOMAIN NoStats |-> returned[key]]

\* C27: a get_stats call leaves self.stats as it was and returns its
\* counters; called again with self.stats not written in between, it returns
\* what the call before returned.
C27_GetStatsReadOnly ==
    [][last_stats'.calls > last_stats.calls =>
          /\ stats' = stats
          /\ CountersOf(last_stats'.value) = stats
          /\ last_stats.calls > 0 => last_stats'.value = last_stats.value]_vars

C27_Witness ==
    /\ last_stats.calls >= 2
    /\ stats.throttled_requests > 0
    /\ FracLT(NoWait, stats.total_wait_time)
    /\ last_stats.value.avg_wait_time = stats.total_wait_time

\* The caller makes an attempt in this step.
Attempts(c) == Len(acquiring'[c].tried) > Len(acquiring[c].tried) /\ acquiring[c].pc = "try"

\* C28: every attempt of an acquire call is made on the strategy that was
\* looked up when the call started, whatever is registered while the call is
\* suspended, and touches no other strategy; a call that starts takes the
\* strategy registered at that moment.
C28_InFlightKeepsStrategy ==
    [][\A c \in DOMAIN acquiring :
          /\ Attempts(c) =>
                /\ acquiring'[c].tried[Len(acquiring'[c].tried)] = acquiring[c].strategy
                /\ \A s \in DOMAIN buckets :
                      s # acquiring[c].strategy => buckets'[s] = buckets[s]
          /\ (acquiring[c].pc # "idle" /\ acquiring'[c].pc # "idle") =>
                acquiring'[c].strategy = acquiring[c].strategy
          /\ (acquiring[c].pc = "idle" /\ acquiring'[c].pc # "idle") =>
                acquiring'[c].strategy = GetStrategy(endpoint_strategies, acquiring'[c].endpoint)]_vars

\* A call looked up strategy 1, slept, and made its second attempt on
\* strategy 1 although its endpoint had been given strategy 2 meanwhile.
C28_Witness ==
    /\ acquiring[1].returned = "true"
    /\ acquiring[1].tried = <<1, 1>>
    /\ GetStrategy(endpoint_strategies, Acquired) = 2
    /\ buckets[2].tokens = Whole(buckets[2].capacity)

\* The call of this caller returns in this step.
Returns(c) == acquiring[c].pc # "idle" /\ acquiring'[c].pc = "idle"

\* C29: with the default strategy and calls made back to back, every call
\* returns True: the first DefaultCapacity of them without sleeping, each
\* later one after sleeping 1/DefaultRate second; when all have returned,
\* total_requests is their number and throttled_requests at least the number
\* of those that slept.
C29_BurstThenSuspended ==
    /\ [][Returns(1) =>
             /\ acquiring'[1].returned = "true"
             /\ tally.started <= DefaultCapacity => acquiring[1].suspensions = 0
             /\ tally.started > DefaultCapacity =>
                   /\ acquiring[1].suspensions >= 1
                   /\ acquiring[1].wait_time = Frac(1, DefaultRate)]_vars
    /\ []((tally.started = BackToBackCalls /\ NobodyAcquiring) =>
             /\ stats.total_requests = BackToBackCalls
             /\ stats.throttled_requests >= BackToBackCalls - DefaultCapacity)

C29_Witness ==
    /\ tally.started = BackToBackCalls
    /\ NobodyAcquiring
    /\ acquiring[1].returned = "true"
    /\ Len(acquiring[1].tried) = 2
    /\ stats.total_requests = BackToBackCalls
    /\ stats.total_wait_time = Frac(BackToBackCalls - DefaultCapacity, DefaultRate)
    /\ clock = Frac(BackToBackCalls - DefaultCapacity, DefaultRate)

\* The wrapper raised.
WrapperRaised == wrapper.outcome \notin {"none", "returned"}

\* C30: when acquisition has failed max_retries times the wrapper raises
\* RateLimitExceeded, the error that carries the endpoint and the number of
\* retries, and has not invoked the function; when an attempt succeeds the
\* function has been invoked exactly once.
C30_RaisesRateLimitExceeded ==
    /\ WrapperRaised =>
          /\ wrapper.outcome = "RateLimitExceeded"
          /\ wrapper.attempts = wrapper.max_retries
          /\ wrapper.invoked = 0
    /\ wrapper.outcome = "returned" => wrapper.invoked = 1

\* What holds of C30: the function is invoked once by a call that returns and
\* never by a call that raises, which has made max_retries attempts.
RL_InvokedOnceOrNever ==
    /\ WrapperRaised => (wrapper.attempts = wrapper.max_retries /\ wrapper.invoked = 0)
    /\ wrapper.outcome = "returned" => wrapper.invoked = 1

\* A step that is a call of acquire that returns False.
AcquireRefused ==
    /\ Len(trace') = Len(trace) + 1
    /\ trace'[Len(trace')].op = "acquire"
    /\ ~trace'[Len(trace')].ok

\* The attributes of the four strategies that change over time.
StrategyState ==
    <<tokens, last_update, requests, queue_size, last_leak, ad_tokens, ad_last_update>>

\* C31: an acquire that returns False leaves tokens, queue depth, request log
\* and the timestamps of the strategy as they were before the call.
C31_RefusedAcquireChangesNothing ==
    [][AcquireRefused => StrategyState' = StrategyState]_vars

\* The log without the requests that are older than the window.
StillInWindow == SelectSeq(requests, LAMBDA t : t >= now - window_size)

\* C31, amended: an acquire that returns False takes nothing; it leaves each
\* strategy as the refill, leak or cleanup at the time of the call leaves it,
\* and appends no request.
C31_RefusedAcquireOnlyRefreshes ==
    [][AcquireRefused =>
          /\ InUse("TokenBucketStrategy") =>
                /\ tokens' = Min(tb_capacity * TicksPerSecond, tokens + (now - last_update) * tb_rate)
                /\ last_update' = now
          /\ InUse("FixedWindowStrategy") => requests' = StillInWindow
          /\ InUse("LeakyBucketStrategy") =>
                /\ queue_size' = Max(0, queue_size - ((now - last_leak) * lb_rate) \div TicksPerSecond)
                /\ last_leak' \in {last_leak, now}
          /\ InUse("AdaptiveStrategy") =>
                /\ ad_tokens' = FracMin(Whole(1),
                                        FracAdd(ad_tokens,
                                                Frac((now - ad_last_update) * current_rate.num,
                                                     TicksPerSecond * current_rate.den)))
                /\ ad_last_update' = now]_vars

\* A fixed window refused an acquire and dropped an old request in the same
\* call.
C31_Witness ==
    /\ InUse("FixedWindowStrategy")
    /\ Len(trace) = 3
    /\ LastCall.op = "acquire" /\ ~LastCall.ok
    /\ trace[2].op = "acquire" /\ trace[2].ok /\ trace[2].units = 1
    /\ requests = <<>>

\* The refresh every call starts with, written out: the tokens after a
\* refill of `elapsed` ticks, the queue after a leak, the log after a cleanup.
TokensAfter(have, elapsed) == Min(Scale(tb_capacity), have + elapsed * tb_rate)
QueueAfter(size, elapsed) == Max(0, size - ((elapsed * lb_rate) \div TicksPerSecond))
LeakTimeAfter(last, elapsed) ==
    IF (elapsed * lb_rate) \div TicksPerSecond > 0 THEN last + elapsed ELSE last
AdaptiveAfter(have, elapsed) ==
    FracMin(Whole(1), FracAdd(have, Frac(elapsed * current_rate.num,
                                         TicksPerSecond * current_rate.den)))

\* Adaptive tokens lie within [0, 1].
AdaptiveWithin == FracLE(Whole(0), ad_tokens) /\ FracLE(ad_tokens, Whole(1))

\* C32: the available quantity of every strategy stays within its capacity:
\* TokenBucket tokens within [0, capacity], LeakyBucket queue_size within
\* [0, capacity], the FixedWindow log no longer than max_requests, Adaptive
\* tokens within [0, 1], also after on_rate_limit(retry_after); and a second
\* refill / leak / cleanup at the instant of the first changes nothing.
C32_QuantitiesWithinCapacity ==
    /\ InUse("TokenBucketStrategy") =>
          /\ 0 <= tokens /\ tokens <= Scale(tb_capacity)
          /\ TokensAfter(TokensAfter(tokens, now - last_update), 0)
                = TokensAfter(tokens, now - last_update)
    /\ InUse("LeakyBucketStrategy") =>
          /\ 0 <= queue_size /\ queue_size <= lb_capacity
          /\ QueueAfter(QueueAfter(queue_size, now - last_leak),
                        now - LeakTimeAfter(last_leak, now - last_leak))
                = QueueAfter(queue_size, now - last_leak)
    /\ InUse("FixedWindowStrategy") =>
          /\ Len(requests) <= max_requests
          /\ LET kept == SelectSeq(requests, LAMBDA t : t >= now - window_size)
             IN SelectSeq(kept, LAMBDA t : t >= now - window_size) = kept
    /\ InUse("AdaptiveStrategy") =>
          /\ AdaptiveWithin
          /\ AdaptiveAfter(AdaptiveAfter(ad_tokens, now - ad_last_update), 0)
                = AdaptiveAfter(ad_tokens, now - ad_last_update)

\* A step that is a call of wait_time().
WaitTimeCalled ==
    /\ Len(trace') = Len(trace) + 1
    /\ trace'[Len(trace')].op = "wait_time"

\* C33: wait_time() returns 0 whenever acquire(1) at the same instant would
\* return True, for every strategy; a Token Bucket and an Adaptive strategy
\* below one token return (1 - tokens) / rate, tokens being the refilled ones.
C33_NoWaitWhenAcquireWouldSucceed ==
    [][WaitTimeCalled =>
          LET wait == trace'[Len(trace')].wait
              tb == TokensAfter(tokens, now - last_update)
              ad == AdaptiveAfter(ad_tokens, now - ad_last_update)
              kept == SelectSeq(requests, LAMBDA t : t >= now - window_size)
          IN /\ InUse("TokenBucketStrategy") =>
                   wait = IF tb >= TicksPerSecond
                          THEN Whole(0)
                          ELSE Frac(TicksPerSecond - tb, TicksPerSecond * tb_rate)
             /\ InUse("AdaptiveStrategy") =>
                   wait = IF FracLE(Whole(1), ad)
                          THEN Whole(0)
                          ELSE Frac((ad.den - ad.num) * current_rate.den,
                                    ad.den * current_rate.num)
             /\ InUse("FixedWindowStrategy") /\ Len(kept) + 1 <= max_requests =>
                   wait = Whole(0)
             /\ InUse("LeakyBucketStrategy")
                   /\ QueueAfter(queue_size, now - last_leak) + 1 <= lb_capacity =>
                   wait = Whole(0)]_vars

\* wait_time() returned 0 and the acquire(1) that followed at the same
\* instant returned True.
C33_Witness ==
    /\ InUse("AdaptiveStrategy")
    /\ Len(trace) = 3
    /\ trace[2].op = "wait_time" /\ trace[2].wait = Whole(0)
    /\ LastCall.op = "acquire" /\ LastCall.units = 1 /\ LastCall.ok
    /\ LastCall.at = trace[2].at

\* A step that is an acquire(1) returning True.
OneUnitGranted ==
    /\ Len(trace') = Len(trace) + 1
    /\ trace'[Len(trace')].op = "acquire"
    /\ trace'[Len(trace')].units = 1
    /\ trace'[Len(trace')].ok

\* C34: after on_rate_limit(retry_after = d), d > 0, at time t, no acquire(1)
\* of the Adaptive strategy returns True before t + d, whatever acquire,
\* wait_time, on_success and on_rate_limit calls come in between.
C34_NothingGrantedBeforeRetryAfter ==
    [][InUse("AdaptiveStrategy") /\ OneUnitGranted => now >= feedback.until]_vars

\* The units the acquire calls trace[1..n] were granted under a timestamp
\* within [from, to].
RECURSIVE GrantedWithin(_, _, _)
GrantedWithin(n, from, to) ==
    IF n = 0
    THEN 0
    ELSE GrantedWithin(n - 1, from, to)
            + (IF /\ trace[n].op = "acquire" /\ trace[n].ok
                  /\ from <= trace[n].at /\ trace[n].at <= to
               THEN trace[n].units
               ELSE 0)

\* The start of the window the time `at` falls in, windows being counted
\* from the construction of the strategy.
WindowStart(at) == (at \div window_size) * window_size

\* A step that is an acquire(max_requests) made when nothing has been
\* admitted in the current window yet.
FullQuotaAskedInFreshWindow ==
    /\ InUse("FixedWindowStrategy")
    /\ Len(trace') = Len(trace) + 1
    /\ trace'[Len(trace')].op = "acquire"
    /\ trace'[Len(trace')].units = max_requests
    /\ GrantedWithin(Len(trace), WindowStart(now), now) = 0

\* C35: the fixed window does not smooth bursts at window boundaries: the
\* full quota of max_requests units can be taken at the start of a window
\* whatever was admitted at the end of the window before, so that
\* 2 * max_requests units are admitted within less than window_size.
C35_FullQuotaAgainInNextWindow ==
    [][FullQuotaAskedInFreshWindow => trace'[Len(trace')].ok]_vars

\* C35, amended: the request log slides with the clock, so in no reachable
\* state have more than max_requests units been admitted under timestamps
\* that lie within one time span shorter than window_size.
C35_NoBurstAcrossWindows ==
    InUse("FixedWindowStrategy") =>
        \A from \in 0..MaxClock :
            GrantedWithin(Len(trace), from, from + window_size - 1) <= max_requests

\* The full quota was admitted in the last tick of one window and refused
\* at the start of the next.
C35_Witness ==
    /\ InUse("FixedWindowStrategy")
    /\ Len(trace) = 3
    /\ trace[2].op = "acquire" /\ trace[2].ok /\ trace[2].units = max_requests
    /\ trace[2].at = window_size - 1
    /\ LastCall.op = "acquire" /\ ~LastCall.ok /\ LastCall.units = max_requests
    /\ LastCall.at = window_size

\* A step in which caller c begins a suspension (time.sleep is called).
SuspensionBegins(c) == acquiring[c].pc # "sleeping" /\ acquiring'[c].pc = "sleeping"

\* A step in which caller c makes an attempt (strategy.acquire is called).
AttemptMade(c) == Len(acquiring'[c].tried) = Len(acquiring[c].tried) + 1

\* C36: acquire makes at most max_retries attempts and suspends at most
\* max_retries - 1 times, never after its final allowed attempt;
\* total_wait_time grows by exactly the duration of every suspension the
\* caller enters, and by nothing else.
C36_BoundedRetriesAndWaitCounted ==
    /\ [][\A c \in DOMAIN acquiring :
             AttemptMade(c) => Len(acquiring[c].tried) + 1 <= acquiring[c].max_retries]_vars
    /\ [](\A c \in DOMAIN acquiring :
             acquiring[c].pc # "idle" =>
                /\ acquiring[c].suspensions <= acquiring[c].max_retries - 1
                /\ acquiring[c].suspensions <= Len(acquiring[c].tried))
    /\ [][\A c \in DOMAIN acquiring :
             IF SuspensionBegins(c)
             THEN /\ Len(acquiring[c].tried) < acquiring[c].max_retries
                  /\ FracLT(clock, acquiring'[c].wake)
                  /\ stats'.total_wait_time
                        = FracAdd(stats.total_wait_time, FracSub(acquiring'[c].wake, clock))
             ELSE stats'.total_wait_time = stats.total_wait_time]_vars

\* A call that made more than one attempt, was suspended in between and
\* returned False, the time of its suspension being counted.
C36_Witness ==
    /\ acquiring[1].pc = "idle"
    /\ acquiring[1].returned = "false"
    /\ Len(acquiring[1].tried) > 1
    /\ FracLT(Whole(0), stats.total_wait_time)

\* C37: with max_concurrent >= 1 and actions that terminate, execute_async
\* terminates and the action of every submitted operation is started: a
\* task gives its slot back whether its action returned or raised, so no
\* operation waits at the gate for ever.
C37_EveryOperationStarted ==
    /\ (phase = "gather") ~> (phase = "returned")
    /\ \A i \in 1..MaxOps :
          (phase = "gather" /\ i \in Ops) ~> (i \in Range(hist.invoked))

\* A run with one slot has returned: the first action raised, the second
\* operation waited at the gate and was started after it.
C37_Witness ==
    /\ mode = "async"
    /\ phase = "returned"
    /\ max_concurrent = 1
    /\ NumOps >= 2
    /\ hist.action[1] = "raised"
    /\ hist.invoked = [i \in Ops |-> i]

\* The operations whose action was never invoked in the current run.
NotStarted == {i \in Ops : i \notin Range(hist.invoked)}

\* C38: after a run of execute_async was cancelled nothing waits at the
\* gate any more, and every operation whose action had not started is left
\* never-run: its result is absent, its task handed back no Failed result,
\* and no compensating action was invoked for it.
C38_CancelledLeavesNeverRun ==
    phase = "cancelled" =>
        /\ waiters = <<>>
        /\ \A i \in Ops : pc[i] # "waiting"
        /\ \A i \in NotStarted :
              /\ operations[i].result = NoResult
              /\ ret[i].res.status # FAILED
              /\ i \notin Range(completed_operations)
              /\ i \notin Range(hist.rollbacks)
        /\ hist.rollbacks = <<>>
        /\ results = <<>>

\* A run was cancelled while the second operation waited at the gate for
\* the slot the first one held.
C38_Witness ==
    /\ phase = "cancelled"
    /\ max_concurrent = 1
    /\ NumOps = 2
    /\ hist.invoked = <<1>>
    /\ pc[1] = "cancelled"
    /\ pc[2] = "unblocked"

\* No action raised in the current run: whatever went wrong was the observer.
NoActionRaised == \A i \in 1..Len(hist.action) : hist.action[i] # "raised"

\* C39: an observer that raises corrupts nothing: in a run in which no
\* action raised, no rollback is started, no later operation is left out,
\* and every operation is reported as Success with its action's return
\* value, in the returned sequence and in its result field.
C39_ObserverFaultHarmless ==
    /\ phase = "rollback" => ~NoActionRaised
    /\ phase = "returned" /\ NoActionRaised =>
          /\ Range(hist.invoked) = Ops
          /\ Len(results) = NumOps
          /\ \A i \in Ops :
                /\ operations[i].result = OperationResult(i, SUCCESS, ReturnValue(i))
                /\ Deref(results[i]) = OperationResult(i, SUCCESS, ReturnValue(i))

\* C40: a call of create_users / delete_users / delete_files runs only the
\* operations built from its own items: no operation added by an earlier
\* call on the same helper is invoked again, the returned sequence has one
\* result per item, and no count reported exceeds the number of items.
C40_OnlyCurrentItemsRun ==
    hist.items > 0 =>
        /\ \A i \in Range(hist.invoked) : i > NumOps - hist.items
        /\ \A n \in 1..Len(hist.progress) : hist.progress[n].total <= hist.items
        /\ phase = "returned" => Len(results) = hist.items

(* ---------------------------- specification ---------------------------- *)
Next ==
    \/ \E has_rollback \in BOOLEAN : AddOperation(has_rollback)
    \/ Clear
    \/ \E observer \in BOOLEAN : ExecuteAsync(observer)
    \/ \E i \in Ops : TaskStart(i)
    \/ Admit
    \/ \E i \in Ops : ActionReturn(i)
    \/ \E i \in Ops : ActionRaise(i)
    \/ \E i \in Ops : ObserverReturn(i)
    \/ \E i \in Ops : ObserverRaise(i)
    \/ GatherReturn
    \/ \E observer \in BOOLEAN : ExecuteSync(observer)
    \/ SyncActionReturn
    \/ SyncActionRaise
    \/ \E raises \in BOOLEAN : SyncObserver(raises)
    \/ SyncReturn
    \/ RollbackSkip
    \/ \E raises \in BOOLEAN : RollbackInvoke(raises)
    \/ RollbackDone

\* The strategies nobody calls stay as constructed.
Unused ==
    /\ trace = <<>>
    /\ FWConstruct(1, 1)
    /\ LBConstruct(1, 1)
    /\ ADConstruct(1, 1, 1)
    /\ RMConstruct
    /\ MGConstruct(1, 1, 1)
    /\ RateLimited(1, 1)

Init == BulkInit /\ TBConstruct(1, 1) /\ Unused

Spec == Init /\ [][Next]_vars

\* The token bucket and its callers; the executor stays as constructed.
TBInit ==
    /\ BulkInit
    /\ max_concurrent = 1
    /\ enable_rollback
    /\ \E rate \in 1..MaxRate, capacity \in 1..MaxCapacity : TBConstruct(rate, capacity)
    /\ Unused

TBNext ==
    \/ \E c \in Callers, units \in 1..MaxUnits : TBCall(c, units)
    \/ \E c \in Callers : TBLock(c)
    \/ \E c \in Callers : TBReadClock(c)
    \/ \E c \in Callers : TBElapsed(c)
    \/ \E c \in Callers : TBRefillValue(c)
    \/ \E c \in Callers : TBStoreTokens(c)
    \/ \E c \in Callers : TBStoreTime(c)
    \/ \E c \in Callers : TBCheck(c)
    \/ \E c \in Callers : TBTake(c)
    \/ \E c \in Callers : TBStoreTaken(c)
    \/ \E c \in Callers : TBWaitCheck(c)
    \/ \E c \in Callers : TBWaitNeeded(c)
    \/ \E c \in Callers : TBUnlock(c)
    \/ Tick

SpecTB == TBInit /\ [][TBNext]_vars

\* A token bucket used by one caller.
TBSeqInit ==
    /\ BulkInit
    /\ max_concurrent = 1
    /\ enable_rollback
    /\ \E rate \in 1..MaxRate, capacity \in 1..MaxCapacity : TBConstruct(rate, capacity)
    /\ Unused

TBSeqNext ==
    \/ \E units \in 1..MaxUnits : TBAcquire(units)
    \/ TBWaitTime
    \/ Advance

SpecTBSeq == TBSeqInit /\ [][TBSeqNext]_vars

\* A fixed window used by one caller.
FWInit ==
    /\ BulkInit
    /\ max_concurrent = 1
    /\ enable_rollback
    /\ TBConstruct(1, 1)
    /\ trace = <<>>
    /\ RMConstruct
    /\ MGConstruct(1, 1, 1)
    /\ RateLimited(1, 1)
    /\ LBConstruct(1, 1)
    /\ ADConstruct(1, 1, 1)
    /\ \E limit \in 1..MaxRequests, window \in 1..MaxWindow : FWConstruct(limit, window)

FWNext ==
    \/ \E units \in 1..MaxUnits : FWAcquire(units)
    \/ FWWaitTime
    \/ Advance

SpecFW == FWInit /\ [][FWNext]_vars

\* A leaky bucket used by one caller.
LBInit ==
    /\ BulkInit
    /\ max_concurrent = 1
    /\ enable_rollback
    /\ TBConstruct(1, 1)
    /\ trace = <<>>
    /\ RMConstruct
    /\ MGConstruct(1, 1, 1)
    /\ RateLimited(1, 1)
    /\ FWConstruct(1, 1)
    /\ ADConstruct(1, 1, 1)
    /\ \E rate \in 1..MaxRate, capacity \in 1..MaxCapacity : LBConstruct(rate, capacity)

LBNext ==
    \/ \E units \in 1..MaxUnits : LBAcquire(units)
    \/ LBWaitTime
    \/ Advance

SpecLB == LBInit /\ [][LBNext]_vars

\* An adaptive strategy and the feedback it is given.
ADInit ==
    /\ BulkInit
    /\ max_concurrent = 1
    /\ enable_rollback
    /\ TBConstruct(1, 1)
    /\ trace = <<>>
    /\ RMConstruct
    /\ MGConstruct(1, 1, 1)
    /\ RateLimited(1, 1)
    /\ FWConstruct(1, 1)
    /\ LBConstruct(1, 1)
    /\ \E lowest \in 1..MaxRate :
          \E highest \in lowest..MaxRate :
             \E initial \in lowest..highest : ADConstruct(initial, lowest, highest)

ADNext ==
    \/ OnSuccess
    \/ \E retry_after \in 0..MaxRetryAfter : OnRateLimit(retry_after)
    \/ Advance

SpecAD == ADInit /\ [][ADNext]_vars

\* An adaptive strategy that is called and given feedback, with retry-after
\* periods of up to MaxBackoff ticks.
RAInit ==
    /\ BulkInit
    /\ max_concurrent = 1
    /\ enable_rollback
    /\ RMConstruct
    /\ MGConstruct(1, 1, 1)
    /\ RateLimited(1, 1)
    /\ TBConstruct(1, 1) /\ FWConstruct(1, 1) /\ LBConstruct(1, 1)
    /\ trace = Constructed("AdaptiveStrategy")
    /\ \E lowest \in 1..MaxRate :
          \E highest \in lowest..MaxRate :
             \E initial \in lowest..highest : ADConstruct(initial, lowest, highest)

RANext ==
    \/ Len(trace) <= MaxProbes /\ (ADAcquire(1) \/ ADWaitTime)
    \/ feedback.calls < MaxProbes /\ OnSuccess
    \/ feedback.calls < MaxProbes /\ \E retry_after \in 0..MaxBackoff : OnRateLimit(retry_after)
    \/ Advance

SpecRA == RAInit /\ [][RANext]_vars

\* One run of execute_async with at least one slot, on operations that all
\* have a compensating action, the event loop running whatever is ready and
\* every action and observer call coming to an end.
LVInit == Init /\ max_concurrent >= 1

ExecutorStep ==
    \/ \E i \in Ops : TaskStart(i)
    \/ Admit
    \/ \E i \in Ops : ActionReturn(i)
    \/ \E i \in Ops : ActionRaise(i)
    \/ \E i \in Ops : ObserverReturn(i)
    \/ \E i \in Ops : ObserverRaise(i)
    \/ GatherReturn
    \/ \E raises \in BOOLEAN : RollbackInvoke(raises)
    \/ RollbackDone

LVNext ==
    \/ phase = "idle" /\ AddOperation(TRUE)
    \/ runs = 0 /\ \E observer \in BOOLEAN : ExecuteAsync(observer)
    \/ ExecutorStep

SpecLV == LVInit /\ [][LVNext]_vars /\ WF_vars(ExecutorStep)

\* One run of execute_async that the caller may cancel.
CXNext ==
    \/ phase = "idle" /\ \E has_rollback \in BOOLEAN : AddOperation(has_rollback)
    \/ runs = 0 /\ \E observer \in BOOLEAN : ExecuteAsync(observer)
    \/ ExecutorStep
    \/ RollbackSkip
    \/ Cancel

SpecCX == Init /\ [][CXNext]_vars

\* A helper object (BulkUserOperations, BulkFileOperations) whose methods
\* are called one after the other.
BHInit ==
    /\ BulkConstruct(DefaultMaxConcurrent, TRUE)
    /\ TBConstruct(1, 1)
    /\ Unused

BHNext ==
    \/ \E n \in 1..MaxOps, concurrent \in 1..MaxConcurrent : CreateUsers(n, concurrent)
    \/ \E i \in Ops : TaskStart(i)
    \/ Admit
    \/ \E i \in Ops : ActionReturn(i)
    \/ \E i \in Ops : ActionRaise(i)
    \/ GatherReturn
    \/ RollbackSkip
    \/ RollbackDone

SpecBH == BHInit /\ [][BHNext]_vars

\* A manager whose endpoint strategies are set and looked up.
RMInit ==
    /\ BulkInit
    /\ max_concurrent = 1
    /\ enable_rollback
    /\ TBConstruct(1, 1)
    /\ trace = <<>>
    /\ FWConstruct(1, 1)
    /\ LBConstruct(1, 1)
    /\ ADConstruct(1, 1, 1)
    /\ RMConstruct
    /\ MGConstruct(1, 1, 1)
    /\ RateLimited(1, 1)

RMNext ==
    \/ \E endpoint \in Endpoints, strategy \in Strategies :
          SetEndpointStrategy(endpoint, strategy)
    \/ \E endpoint \in Endpoints : Resolve(endpoint)

SpecRM == RMInit /\ [][RMNext]_vars

\* What the rest of the program is while a manager is used.
MGRest ==
    /\ BulkInit
    /\ max_concurrent = 1
    /\ enable_rollback
    /\ TBConstruct(1, 1)
    /\ trace = <<>>
    /\ FWConstruct(1, 1)
    /\ LBConstruct(1, 1)
    /\ ADConstruct(1, 1, 1)
    /\ RMConstruct
    /\ RateLimited(1, 1)

\* The steps of a caller inside acquire.
AcquireSteps(c) ==
    \/ CountRequest(c)
    \/ Try(c)
    \/ Throttle(c)
    \/ WaitTime(c)
    \/ AddWait(c)
    \/ Wake(c)

\* A manager used by one caller, with the statistics read and reset.
MGInit ==
    /\ MGRest
    /\ \E rate \in 0..MaxRate, capacity \in 0..MaxCapacity : MGConstruct(rate, capacity, 1)

MGNext ==
    \/ /\ tally.started < MaxAcquires
       /\ \E units \in 1..MaxUnits, max_retries \in 1..MaxRetries :
             Acquire(1, Acquired, units, max_retries)
    \/ AcquireSteps(1)
    \/ ClockTick
    \/ GetStats
    \/ ResetStats

SpecMG == MGInit /\ [][MGNext]_vars

\* A manager used by one caller that retries.
MRInit ==
    /\ MGRest
    /\ \E rate \in 1..MaxRate, capacity \in 1..MaxCapacity : MGConstruct(rate, capacity, 1)

MRNext ==
    \/ /\ tally.started < MaxAcquires
       /\ \E units \in 1..MaxUnits, max_retries \in 1..MaxRetries :
             Acquire(1, Acquired, units, max_retries)
    \/ AcquireSteps(1)
    \/ ClockTick

SpecMR == MRInit /\ [][MRNext]_vars

\* A manager used by one caller while strategies are registered.
MSInit ==
    /\ MGRest
    /\ \E rate \in 1..MaxRate : MGConstruct(rate, 1, 1)

MSNext ==
    \/ /\ tally.started < MaxAcquires
       /\ Acquire(1, Acquired, 1, MaxRetries)
    \/ AcquireSteps(1)
    \/ ClockTick
    \/ \E endpoint \in Prefixes, strategy \in Strategies :
          SetEndpointStrategy(endpoint, strategy)

SpecMS == MSInit /\ [][MSNext]_vars

\* A manager used by several threads.
MTInit ==
    /\ MGRest
    /\ \E rate \in 1..MaxRate, capacity \in 1..MaxCapacity :
          MGConstruct(rate, capacity, MaxThreads)

MTNext ==
    \/ /\ tally.started < MaxAcquires
       /\ \E c \in 1..MaxThreads, units \in 1..MaxUnits, max_retries \in 1..MaxRetries :
             Acquire(c, Acquired, units, max_retries)
    \/ \E c \in 1..MaxThreads : AcquireSteps(c)
    \/ ClockTick
    \/ ResetStats

SpecMT == MTInit /\ [][MTNext]_vars

\* A manager with its default strategy, acquired from again and again by one
\* caller with nothing in between: time passes only while the caller sleeps,
\* and then exactly as long as it asked for.
E2EInit ==
    /\ MGRest
    /\ MGConstruct(DefaultRate, DefaultCapacity, 1)

E2ENext ==
    \/ /\ tally.started < BackToBackCalls
       /\ Acquire(1, Acquired, 1, DefaultMaxRetries)
    \/ AcquireSteps(1)
    \/ Elapse(1)
    \/ GetStats

SpecE2E == E2EInit /\ [][E2ENext]_vars

\* A function wrapped by rate_limited and called by one caller.
RLInit ==
    /\ BulkInit
    /\ max_concurrent = 1
    /\ enable_rollback
    /\ TBConstruct(1, 1)
    /\ trace = <<>>
    /\ FWConstruct(1, 1)
    /\ LBConstruct(1, 1)
    /\ ADConstruct(1, 1, 1)
    /\ RMConstruct
    /\ \E rate \in 1..MaxRate, capacity \in 1..MaxCapacity : MGConstruct(rate, capacity, 1)
    /\ \E units \in 1..MaxUnits, max_retries \in 1..MaxRetries : RateLimited(units, max_retries)

RLNext ==
    \/ /\ wrapper.calls < MaxAcquires
       /\ WrapperCall
    \/ WrapperTry
    \/ WrapperWaitTime
    \/ WrapperWake
    \/ ClockTick

SpecRL == RLInit /\ [][RLNext]_vars

\* One strategy of any of the four classes, used by one caller: the other
\* three stay as constructed.
SVInit ==
    /\ BulkInit
    /\ max_concurrent = 1
    /\ enable_rollback
    /\ RMConstruct
    /\ MGConstruct(1, 1, 1)
    /\ RateLimited(1, 1)
    /\ \/ /\ trace = Constructed("TokenBucketStrategy")
          /\ \E rate \in 1..MaxRate, capacity \in 1..MaxCapacity : TBConstruct(rate, capacity)
          /\ FWConstruct(1, 1) /\ LBConstruct(1, 1) /\ ADConstruct(1, 1, 1)
       \/ /\ trace = Constructed("FixedWindowStrategy")
          /\ \E limit \in 1..MaxRequests, window \in 1..MaxWindow : FWConstruct(limit, window)
          /\ TBConstruct(1, 1) /\ LBConstruct(1, 1) /\ ADConstruct(1, 1, 1)
       \/ /\ trace = Constructed("LeakyBucketStrategy")
          /\ \E rate \in 1..MaxRate, capacity \in 1..MaxCapacity : LBConstruct(rate, capacity)
          /\ TBConstruct(1, 1) /\ FWConstruct(1, 1) /\ ADConstruct(1, 1, 1)
       \/ /\ trace = Constructed("AdaptiveStrategy")
          /\ \E lowest \in 1..MaxRate :
                \E highest \in lowest..MaxRate :
                   \E initial \in lowest..highest : ADConstruct(initial, lowest, highest)
          /\ TBConstruct(1, 1) /\ FWConstruct(1, 1) /\ LBConstruct(1, 1)

SVNext ==
    \/ /\ InUse("TokenBucketStrategy") /\ Len(trace) <= MaxProbes
       /\ \/ \E units \in 1..MaxUnits : TBAcquire(units)
          \/ TBWaitTime
    \/ /\ InUse("FixedWindowStrategy") /\ Len(trace) <= MaxProbes
       /\ \/ \E units \in 1..MaxUnits : FWAcquire(units)
          \/ FWWaitTime
    \/ /\ InUse("LeakyBucketStrategy") /\ Len(trace) <= MaxProbes
       /\ \/ \E units \in 1..MaxUnits : LBAcquire(units)
          \/ LBWaitTime
    \/ /\ InUse("AdaptiveStrategy") /\ Len(trace) <= MaxProbes
       /\ \/ \E units \in 1..MaxUnits : ADAcquire(units)
          \/ ADWaitTime
    \/ /\ InUse("AdaptiveStrategy") /\ feedback.calls < MaxProbes
       /\ \E retry_after \in 0..MaxRetryAfter : OnRateLimit(retry_after)
    \/ Advance

SpecSV == SVInit /\ [][SVNext]_vars

====
